---- MODULE Spec2Model ----
(***************************************************************************)
(* A model of the finance-tracking backend: the transactions table         *)
(* (database/transactions.py), the four operation handlers (llm/tools),    *)
(* the tool dispatch router (llm/router.py), the date-filter resolver      *)
(* (utils/date_utils.py) and the HTTP endpoints of main.py.                *)
(*                                                                         *)
(* Amounts are integers.  A timestamp is a number of clock ticks since     *)
(* midnight of the day EpochOrdinal; a date is a proleptic Gregorian       *)
(* ordinal, as datetime.date.toordinal() gives it.  Python's None and      *)
(* SQL's NULL are the value None.  A dict is a function from its keys.     *)
(***************************************************************************)
EXTENDS Integers, Sequences, FiniteSets, TLC

VARIABLES
    transactions,   \* the rows of the transactions table
    auto_increment, \* the id the next INSERT is given
    now,            \* the clock, in ticks since midnight of EpochOrdinal
    writes,         \* the requests that changed the table, and the clock's ticks
    prev,           \* the rows of the table when the last request arrived
    resp            \* the last request and what was answered, or Idle

vars == <<transactions, auto_increment, now, writes, prev, resp>>

None == "None"

\* the value of a one-element set: what it is built from is evaluated once
Eager(S) == CHOOSE v \in S : TRUE

EmptyDict == [k \in {} |-> None]

\* dict.get(key, default)
Get(d, k, default) == IF k \in DOMAIN d THEN d[k] ELSE default

\* d.update(e): the keys of e win
Update(d, e) == e @@ d

(***************************************************************************)
(* Bounds of the model.                                                    *)
(***************************************************************************)
MaxId == 2          \* rows ever inserted
MaxNow == 2         \* the clock stops here
MaxWrites == 3      \* requests that change the table, and ticks of the clock

TicksPerDay == 2    \* ticks of the clock in a day: ticks 0 and 1 are the first day

(***************************************************************************)
(* The calendar of datetime.date, as utils/date_utils.py uses it.          *)
(***************************************************************************)
IsLeap(y) == y % 4 = 0 /\ (y % 100 # 0 \/ y % 400 = 0)

DaysInMonth(y, m) ==
    IF m = 2 THEN (IF IsLeap(y) THEN 29 ELSE 28)
    ELSE IF m \in {4, 6, 9, 11} THEN 30 ELSE 31

DaysBeforeYear(y) ==
    LET z == y - 1 IN z * 365 + (z \div 4) - (z \div 100) + (z \div 400)

RECURSIVE DaysBeforeMonth(_, _)
DaysBeforeMonth(y, m) ==
    IF m = 1 THEN 0
    ELSE Eager({DaysBeforeMonth(y, k) + DaysInMonth(y, k) : k \in {m - 1}})

\* date(y, m, d).toordinal()
Ymd2Ord(y, m, d) == DaysBeforeYear(y) + DaysBeforeMonth(y, m) + d

RECURSIVE YearOf(_, _)
YearOf(n, y) ==
    IF n <= DaysBeforeYear(y + 1) THEN y ELSE Eager({YearOf(n, k) : k \in {y + 1}})

RECURSIVE MonthOf(_, _, _)
MonthOf(n, y, m) ==
    IF n <= DaysBeforeYear(y) + DaysBeforeMonth(y, m) + DaysInMonth(y, m)
    THEN m ELSE Eager({MonthOf(n, y, k) : k \in {m + 1}})

\* date.fromordinal(n), as the record of its year, month and day
Ord2Ymd(n) ==
    LET Date(y, m) ==
            [year |-> y, month |-> m,
             day |-> n - DaysBeforeYear(y) - DaysBeforeMonth(y, m)]
        InYear(y) == Eager({Date(y, m) : m \in {MonthOf(n, y, 1)}})
    IN  Eager({InYear(y) : y \in {YearOf(n, (n * 400) \div 146097)}})

Weekday_FromSunday(n) == n % 7

\* date.weekday(): Monday is 0
Weekday(n) == (n + 6) % 7

\* today.replace(year=y, month=m, day=d)
Replace(y, m, d) == Ymd2Ord(y, m, d)

\* the day the clock starts in: Monday 30 December 2024
EpochOrdinal == Ymd2Ord(2024, 12, 30)

\* datetime.now().date()
Today(t) == EpochOrdinal + (t \div TicksPerDay)

\* the timestamp a date (midnight of that day) is compared as
Midnight(d) == (d - EpochOrdinal) * TicksPerDay

(***************************************************************************)
(* Text: a string that is searched is a sequence of characters.            *)
(***************************************************************************)
Lower(s) ==
    [i \in 1..Len(s) |->
        CASE s[i] = "T" -> "t" [] s[i] = "O" -> "o" [] s[i] = "D" -> "d"
          [] s[i] = "A" -> "a" [] s[i] = "Y" -> "y" [] OTHER -> s[i]]

RECURSIVE Strip(_)
Strip(s) ==
    IF s = <<>> THEN s
    ELSE IF Head(s) = " " THEN Strip(Tail(s))
    ELSE IF s[Len(s)] = " " THEN Strip(SubSeq(s, 1, Len(s) - 1))
    ELSE s

\* key in text
Contains(text, key) ==
    \E i \in 1..(Len(text) - Len(key) + 1) : SubSeq(text, i, i + Len(key) - 1) = key

K_today == <<"t", "o", "d", "a", "y">>
K_yesterday == <<"y", "e", "s", "t", "e", "r", "d", "a", "y">>
K_this_week == <<"t", "h", "i", "s", "_", "w", "e", "e", "k">>
K_last_week == <<"l", "a", "s", "t", "_", "w", "e", "e", "k">>
K_this_month_Spaced == <<"t", "h", "i", "s", " ", "m", "o", "n", "t", "h">>
K_this_month == <<"t", "h", "i", "s", "_", "m", "o", "n", "t", "h">>
K_last_month == <<"l", "a", "s", "t", "_", "m", "o", "n", "t", "h">>

DateRange(from, to) == [date_from |-> from, date_to |-> to]

\* utils/date_utils.py parse_date_filters, with today = datetime.now().date()
parse_date_filters(date_text0, today) ==
    LET Resolve(date_text, ymd) ==
            IF Contains(date_text, K_today) THEN DateRange(today, today + 1)
            ELSE IF Contains(date_text, K_yesterday) THEN DateRange(today - 1, today)
            ELSE IF Contains(date_text, K_this_week) THEN
                LET start_of_week == today - Weekday(today)
                IN  DateRange(start_of_week, start_of_week + 7)
            ELSE IF Contains(date_text, K_last_week) THEN
                LET start_of_last_week == today - (Weekday(today) + 7)
                IN  DateRange(start_of_last_week, start_of_last_week + 7)
            ELSE IF Contains(date_text, K_this_month) THEN
                DateRange(Replace(ymd.year, ymd.month, 1),
                          IF ymd.month = 12
                          THEN Replace(ymd.year + 1, 1, 1)
                          ELSE Replace(ymd.year, ymd.month + 1, 1))
            ELSE IF Contains(date_text, K_last_month) THEN
                DateRange(IF ymd.month = 1
                          THEN Replace(ymd.year - 1, 12, 1)
                          ELSE Replace(ymd.year, ymd.month - 1, 1),
                          Replace(ymd.year, ymd.month, 1))
            ELSE EmptyDict
    IN  Eager({Resolve(date_text, ymd) :
                 date_text \in {Strip(Lower(date_text0))}, ymd \in {Ord2Ymd(today)}})

\* utils/date_utils.py format_date_for_display: day, month, year, hour and minute
format_date_for_display(t) ==
    [date |-> Ord2Ymd(Today(t)), time |-> t % TicksPerDay]

(***************************************************************************)
(* database/connection.py and database/transactions.py.  A store operator  *)
(* takes the database db = [transactions, auto_increment, stmts, fault]    *)
(* and gives [db |-> the database after the call, result |-> what it       *)
(* returns], or [db, raised] when it raises; stmts counts the statements   *)
(* sent over the connection, and statement number fault (if any) fails.    *)
(***************************************************************************)
MutableFields == {"amount", "type", "sub_type", "whom_to_paid"}

\* DatabaseConnection.execute_query / execute_update: one statement is run
Execute(db) == [db EXCEPT !.stmts = @ + 1]

\* the statement sent next fails: execute_query / execute_update raise the Error,
\* execute_update after rolling back
Raises(db) == db.fault = db.stmts + 1

\* a store method logs the fault of its statement and raises it again
Raise(db) == [db |-> Execute(db), raised |-> TRUE]

\* the call did not return: it raised
Raised(r) == "raised" \in DOMAIN r

InScope(tx, user_id, client_id) == tx.user_id = user_id /\ tx.client_id = client_id

SameValues(a, b) ==
    \A f \in MutableFields \cup {"user_id", "client_id"} : a[f] = b[f]

Insert_Dedup(db, row) ==
    IF \E tx \in db.transactions : SameValues(tx, row)
    THEN Execute(db)
    ELSE [Execute(db) EXCEPT !.transactions = @ \cup {row}, !.auto_increment = @ + 1]

\* INSERT INTO transactions: the row is stored and the AUTO_INCREMENT counter moves on
Insert(db, row) ==
    [Execute(db) EXCEPT !.transactions = @ \cup {row}, !.auto_increment = @ + 1]

\* TransactionDB.add_transaction: INSERT; id and created_at are the server's
TransactionDB_add_transaction(db, t, client_id, user_id, amount, transaction_type, sub_type, whom_to_paid) ==
    LET row == [id |-> db.auto_increment, client_id |-> client_id, user_id |-> user_id,
                amount |-> amount, type |-> transaction_type, sub_type |-> sub_type,
                whom_to_paid |-> whom_to_paid, created_at |-> t]
        db1 == Insert(db, row)
        affected_rows == Cardinality(db1.transactions \ db.transactions)
    IN  IF Raises(db) THEN Raise(db)
        ELSE IF affected_rows > 0
        THEN [db |-> db1,
              result |-> [success |-> TRUE, message |-> "Transaction added successfully"]]
        ELSE [db |-> db1,
              result |-> [success |-> FALSE, message |-> "Failed to add transaction"]]

\* filters.get(key) is true: the key is there and its value is not "" (or 0)
HasText(filters, k) == k \in DOMAIN filters /\ filters[k] # ""
HasNumber(filters, k) == k \in DOMAIN filters /\ filters[k] # 0
HasDate(filters, k) == k \in DOMAIN filters

\* the upper end of the date range in get_transactions' WHERE clause
DateToClause(tx, filters) == tx.created_at <= Midnight(filters["date_to"])

\* the WHERE clause get_transactions builds
Where(tx, user_id, client_id, filters) ==
    /\ InScope(tx, user_id, client_id)
    /\ HasText(filters, "type") => tx.type = filters["type"]
    /\ HasText(filters, "sub_type") => tx.sub_type = filters["sub_type"]
    /\ HasDate(filters, "date_from") => tx.created_at >= Midnight(filters["date_from"])
    /\ HasDate(filters, "date_to") => DateToClause(tx, filters)
    /\ HasNumber(filters, "amount_min") => tx.amount >= filters["amount_min"]
    /\ HasNumber(filters, "amount_max") => tx.amount <= filters["amount_max"]

\* ORDER BY created_at DESC; rows of one timestamp come newest id first here
\* (SQL leaves their order open, and nothing below depends on it)
RECURSIVE OrderByCreatedAtDesc(_)
OrderByCreatedAtDesc(S) ==
    IF S = {} THEN <<>>
    ELSE LET first == CHOOSE x \in S :
                        \A y \in S : \/ x.created_at > y.created_at
                                     \/ x.created_at = y.created_at /\ x.id >= y.id
         IN  <<first>> \o OrderByCreatedAtDesc(S \ {first})

Limit(seq, n) == SubSeq(seq, 1, IF Len(seq) < n THEN Len(seq) ELSE n)

\* TransactionDB.get_transactions
TransactionDB_get_transactions(db, user_id, client_id, filters) ==
    LET results == OrderByCreatedAtDesc(
                     {tx \in db.transactions : Where(tx, user_id, client_id, filters)})
    IN  IF Raises(db) THEN Raise(db)
        ELSE [db |-> Execute(db), result |-> [success |-> TRUE, transactions |-> results]]

WhereId_NoClient(tx, transaction_id, user_id, client_id) ==
    tx.id = transaction_id /\ tx.user_id = user_id

\* the WHERE clause of the point lookup, the UPDATE and the DELETE
WhereId(tx, transaction_id, user_id, client_id) ==
    tx.id = transaction_id /\ InScope(tx, user_id, client_id)

\* TransactionDB.get_transaction_by_id
TransactionDB_get_transaction_by_id(db, transaction_id, user_id, client_id) ==
    LET results == OrderByCreatedAtDesc(
                     {tx \in db.transactions :
                        WhereId(tx, transaction_id, user_id, client_id)})
    IN  IF Raises(db) THEN Raise(db)
        ELSE IF results # <<>>
        THEN [db |-> Execute(db),
              result |-> [success |-> TRUE, transaction |-> results[1]]]
        ELSE [db |-> Execute(db),
              result |-> [success |-> FALSE, message |-> "Transaction not found"]]

SetClauses_All(updates) == DOMAIN updates

\* the fields of `updates` that get a SET clause
SetClauses(updates) == DOMAIN updates \cap MutableFields

ApplySet_AllFour(tx, updates) ==
    [f \in DOMAIN tx |-> IF f \in MutableFields THEN Get(updates, f, None) ELSE tx[f]]

\* the row after SET field = value for every SET clause
ApplySet(tx, updates) ==
    [f \in DOMAIN tx |-> IF f \in SetClauses(updates) THEN updates[f] ELSE tx[f]]

\* TransactionDB.update_transaction; cursor.rowcount counts the rows changed
TransactionDB_update_transaction(db, transaction_id, user_id, client_id, updates) ==
    IF SetClauses(updates) = {}
    THEN [db |-> db,
          result |-> [success |-> FALSE, message |-> "No valid fields to update"]]
    ELSE IF Raises(db) THEN Raise(db)
    ELSE LET matched == {tx \in db.transactions :
                           WhereId(tx, transaction_id, user_id, client_id)}
             after == (db.transactions \ matched)
                        \cup {ApplySet(tx, updates) : tx \in matched}
             affected_rows == Cardinality({tx \in matched : ApplySet(tx, updates) # tx})
             db1 == [Execute(db) EXCEPT !.transactions = after]
         IN  IF affected_rows > 0
             THEN [db |-> db1,
                   result |-> [success |-> TRUE,
                               message |-> "Transaction updated successfully"]]
             ELSE [db |-> db1,
                   result |-> [success |-> FALSE,
                               message |-> "Transaction not found or no changes made"]]

TransactionDB_delete_transaction_Always(db, transaction_id, user_id, client_id) ==
    LET matched == {tx \in db.transactions :
                      WhereId(tx, transaction_id, user_id, client_id)}
        affected_rows == Cardinality(matched)
        db1 == [Execute(db) EXCEPT !.transactions = @ \ matched]
    IN  IF Raises(db) THEN Raise(db)
        ELSE IF affected_rows >= 0
        THEN [db |-> db1,
              result |-> [success |-> TRUE, message |-> "Transaction deleted successfully"]]
        ELSE [db |-> db1,
              result |-> [success |-> FALSE, message |-> "Transaction not found"]]

\* TransactionDB.delete_transaction
TransactionDB_delete_transaction(db, transaction_id, user_id, client_id) ==
    LET matched == {tx \in db.transactions :
                      WhereId(tx, transaction_id, user_id, client_id)}
        affected_rows == Cardinality(matched)
        db1 == [Execute(db) EXCEPT !.transactions = @ \ matched]
    IN  IF Raises(db) THEN Raise(db)
        ELSE IF affected_rows > 0
        THEN [db |-> db1,
              result |-> [success |-> TRUE, message |-> "Transaction deleted successfully"]]
        ELSE [db |-> db1,
              result |-> [success |-> FALSE, message |-> "Transaction not found"]]

\* TransactionDB.get_recent_transactions
TransactionDB_get_recent_transactions(db, user_id, client_id, limit) ==
    LET results == Limit(OrderByCreatedAtDesc(
                     {tx \in db.transactions : InScope(tx, user_id, client_id)}), limit)
    IN  IF Raises(db) THEN Raise(db)
        ELSE [db |-> Execute(db), result |-> [success |-> TRUE, transactions |-> results]]

(***************************************************************************)
(* llm/tools: the four operation handlers.  A handler takes the database,  *)
(* the clock and its keyword arguments p (a dict: an argument left out, or *)
(* given as None, is a key p does not have) and gives [db, result].        *)
(***************************************************************************)
Given(p, k) == k \in DOMAIN p

\* a string argument that is neither None nor ""
Truthy(p, k) == k \in DOMAIN p /\ p[k] # ""

\* a text argument that is neither None nor empty
TruthyText(p, k) == k \in DOMAIN p /\ p[k] # <<>>

NonPositive_Strict(amount) == amount < 0

\* amount <= 0, the check of add_transaction and update_transaction
NonPositive(amount) == amount <= 0

Failure(db, message) == [db |-> db, result |-> [success |-> FALSE, message |-> message]]

\* llm/tools/add_transaction.py
add_transaction(db, t, p) ==
    LET sub_type == Get(p, "sub_type", None)
        whom_to_paid == Get(p, "whom_to_paid", None)
        Stored(result) ==
            IF Raised(result) THEN Failure(result.db, "Error adding transaction")
            ELSE IF result.result.success
            THEN [db |-> result.db,
                  result |-> [success |-> TRUE,
                              message |-> [text |-> "Added", type |-> p.type,
                                           amount |-> p.amount],
                              data |-> [amount |-> p.amount, type |-> p.type,
                                        sub_type |-> sub_type,
                                        whom_to_paid |-> whom_to_paid]]]
            ELSE result
    IN  IF NonPositive(p.amount) THEN Failure(db, "Amount must be greater than 0")
        ELSE Eager({Stored(result) :
                      result \in {TransactionDB_add_transaction(
                                      db, t, p.client_id, p.user_id, p.amount, p.type,
                                      sub_type, whom_to_paid)}})

\* the filters get_transaction builds from its arguments
GetFilters(t, p) ==
    LET type == IF Truthy(p, "type") THEN [type |-> p.type] ELSE EmptyDict
        sub_type == IF Truthy(p, "sub_type") THEN [sub_type |-> p.sub_type] ELSE EmptyDict
        date_filters == IF TruthyText(p, "date_filter")
                        THEN parse_date_filters(p.date_filter, Today(t)) ELSE EmptyDict
        amount_min == IF Given(p, "amount_min") THEN [amount_min |-> p.amount_min]
                      ELSE EmptyDict
        amount_max == IF Given(p, "amount_max") THEN [amount_max |-> p.amount_max]
                      ELSE EmptyDict
    IN  Update(Update(Update(Update(type, sub_type), date_filters), amount_min), amount_max)

\* the row get_transaction shows for a stored row
FormatTx(tx) ==
    [id |-> tx.id, amount |-> tx.amount, type |-> tx.type, sub_type |-> tx.sub_type,
     whom_to_paid |-> tx.whom_to_paid,
     created_at |-> format_date_for_display(tx.created_at),
     raw_created_at |-> tx.created_at]

RECURSIVE TotalAmount_Swapped(_)
TotalAmount_Swapped(txs) ==
    IF txs = <<>> THEN 0
    ELSE LET tx == txs[Len(txs)]
             before == TotalAmount_Swapped(SubSeq(txs, 1, Len(txs) - 1))
         IN  IF tx.type = "income" THEN before - tx.amount ELSE before + tx.amount

RECURSIVE TotalAmount_ExpenseOnly(_)
TotalAmount_ExpenseOnly(txs) ==
    IF txs = <<>> THEN 0
    ELSE LET tx == txs[Len(txs)]
             before == TotalAmount_ExpenseOnly(SubSeq(txs, 1, Len(txs) - 1))
         IN  IF tx.type = "income" THEN before + tx.amount
             ELSE IF tx.type = "expense" THEN before - tx.amount ELSE before

\* the running signed total of get_transaction's loop
RECURSIVE TotalAmount(_)
TotalAmount(txs) ==
    IF txs = <<>> THEN 0
    ELSE LET tx == txs[Len(txs)]
             before == TotalAmount(SubSeq(txs, 1, Len(txs) - 1))
         IN  IF tx.type = "income" THEN before + tx.amount ELSE before - tx.amount

\* llm/tools/get_transaction.py
get_transaction(db, t, p) ==
    LET Found(result) ==
            LET txs == result.result.transactions
            IN  IF Raised(result) THEN Failure(result.db, "Error retrieving transactions")
                ELSE IF ~result.result.success THEN result
                ELSE IF txs = <<>>
                THEN [db |-> result.db,
                      result |-> [success |-> TRUE,
                                  message |-> [text |-> "No transactions found"],
                                  data |-> [transactions |-> <<>>, count |-> 0]]]
                ELSE [db |-> result.db,
                      result |-> [success |-> TRUE,
                                  message |-> [text |-> "Found", count |-> Len(txs),
                                               total |-> TotalAmount(txs)],
                                  data |-> [transactions |->
                                                [i \in 1..Len(txs) |-> FormatTx(txs[i])],
                                            count |-> Len(txs),
                                            total_amount |-> TotalAmount(txs)]]]
    IN  Eager({Found(result) :
                 result \in {TransactionDB_get_transactions(db, p.user_id, p.client_id,
                                                             filters) :
                                filters \in {GetFilters(t, p)}}})

\* not transaction_id or transaction_id <= 0
InvalidId(transaction_id) == transaction_id = 0 \/ transaction_id <= 0

\* the updates dict update_transaction builds (the amount is checked before)
HandlerUpdates(p) == [f \in DOMAIN p \cap MutableFields |-> p[f]]

\* llm/tools/update_transaction.py
update_transaction(db, t, p) ==
    LET updates == HandlerUpdates(p)
        Updated(original_tx, result) ==
            IF Raised(result) THEN Failure(result.db, "Error updating transaction")
            ELSE IF result.result.success
            THEN [db |-> result.db,
                  result |-> [success |-> TRUE,
                              message |-> [text |-> "Updated transaction",
                                           id |-> p.transaction_id,
                                           changes |-> [f \in DOMAIN updates |->
                                               [old |-> original_tx[f],
                                                new |-> updates[f]]]],
                              data |-> [transaction_id |-> p.transaction_id,
                                        changes |-> updates]]]
            ELSE result
        Looked(original_result) ==
            IF Raised(original_result)
            THEN Failure(original_result.db, "Error updating transaction")
            ELSE IF ~original_result.result.success
            THEN Failure(original_result.db, "Transaction not found")
            ELSE Eager({Updated(original_result.result.transaction, result) :
                          result \in {TransactionDB_update_transaction(
                                          original_result.db, p.transaction_id,
                                          p.user_id, p.client_id, updates)}})
    IN  IF InvalidId(p.transaction_id) THEN Failure(db, "Invalid transaction ID")
        ELSE IF Given(p, "amount") /\ NonPositive(p.amount)
        THEN Failure(db, "Amount must be greater than 0")
        ELSE IF DOMAIN updates = {} THEN Failure(db, "No fields to update")
        ELSE Eager({Looked(original_result) :
                      original_result \in {TransactionDB_get_transaction_by_id(
                                               db, p.transaction_id,
                                               p.user_id, p.client_id)}})

\* llm/tools/delete_transaction.py
delete_transaction(db, t, p) ==
    LET Deleted(transaction, result) ==
            LET deleted == [id |-> p.transaction_id, amount |-> transaction.amount,
                            type |-> transaction.type,
                            sub_type |-> transaction.sub_type,
                            whom_to_paid |-> transaction.whom_to_paid]
            IN  IF Raised(result) THEN Failure(result.db, "Error deleting transaction")
                ELSE IF result.result.success
                THEN [db |-> result.db,
                      result |-> [success |-> TRUE,
                                  message |-> [text |-> "Deleted", tx |-> deleted],
                                  data |-> [deleted_transaction |-> deleted]]]
                ELSE result
        Looked(transaction_result) ==
            IF Raised(transaction_result)
            THEN Failure(transaction_result.db, "Error deleting transaction")
            ELSE IF ~transaction_result.result.success
            THEN Failure(transaction_result.db, "Transaction not found")
            ELSE Eager({Deleted(transaction_result.result.transaction, result) :
                          result \in {TransactionDB_delete_transaction(
                                          transaction_result.db, p.transaction_id,
                                          p.user_id, p.client_id)}})
    IN  IF InvalidId(p.transaction_id) THEN Failure(db, "Invalid transaction ID")
        ELSE Eager({Looked(transaction_result) :
                      transaction_result \in {TransactionDB_get_transaction_by_id(
                                                  db, p.transaction_id,
                                                  p.user_id, p.client_id)}})

(***************************************************************************)
(* llm/router.py: the tool dispatch router.                                *)
(***************************************************************************)
\* LLMRouter.tools: the operation registry
tools == {"add_transaction", "get_transaction", "update_transaction", "delete_transaction"}

\* the parameters of each handler's signature
Parameters(name) ==
    CASE name = "add_transaction" ->
           {"user_id", "client_id", "amount", "type", "sub_type", "whom_to_paid"}
      [] name = "get_transaction" ->
           {"user_id", "client_id", "type", "sub_type", "date_filter",
            "amount_min", "amount_max"}
      [] name = "update_transaction" ->
           {"user_id", "client_id", "transaction_id", "amount", "type", "sub_type",
            "whom_to_paid"}
      [] name = "delete_transaction" -> {"user_id", "client_id", "transaction_id"}

\* the parameters without a default
Required(name) ==
    CASE name = "add_transaction" -> {"user_id", "client_id", "amount", "type"}
      [] name = "get_transaction" -> {"user_id", "client_id"}
      [] name = "update_transaction" -> {"user_id", "client_id", "transaction_id"}
      [] name = "delete_transaction" -> {"user_id", "client_id", "transaction_id"}

Binds_Required(name, params) == Required(name) \subseteq DOMAIN params

\* self.tools[tool_name](**tool_params) raises no TypeError
Binds(name, params) ==
    Required(name) \subseteq DOMAIN params /\ DOMAIN params \subseteq Parameters(name)

\* self.tools[tool_name](**tool_params)
CallTool(name, db, t, params) ==
    CASE name = "add_transaction" -> add_transaction(db, t, params)
      [] name = "get_transaction" -> get_transaction(db, t, params)
      [] name = "update_transaction" -> update_transaction(db, t, params)
      [] name = "delete_transaction" -> delete_transaction(db, t, params)

Inject_SetDefault(tool_params, user_id, client_id) ==
    Update([user_id |-> user_id, client_id |-> client_id], tool_params)

\* tool_params["user_id"] = user_id; tool_params["client_id"] = client_id
Inject(tool_params, user_id, client_id) ==
    Update(tool_params, [user_id |-> user_id, client_id |-> client_id])

LLMResponse(success, message, data, tool_called) ==
    [success |-> success, message |-> message, data |-> data, tool_called |-> tool_called]

\* no handler was called
NoCall == [invoked |-> FALSE, name |-> None, params |-> EmptyDict,
           result |-> EmptyDict, stmts |-> 0]

\* what the classifier answers when it is not invoked: it gives no answer
Unasked == [asked |-> FALSE]

\* the classifier was not invoked
NoLlm == [invoked |-> FALSE, recent_transactions |-> <<>>]

\* a decoded `parameters` that is no dict: JSON null
NotADict == [class |-> "NoneType"]

\* tool_params[key] = value works: tool_params is a dict
IsDict(tool_params) == "class" \notin DOMAIN tool_params

\* a decoded `name` that is a JSON array, as Python shows it: a list has no hash
ListName == "['add_transaction']"

\* tool_name can be looked up in a dict
Hashable(tool_name) == tool_name # ListName

UnknownTool_Anonymous(tool_name) ==
    LLMResponse(FALSE, [text |-> "Unknown tool", name |-> tool_name], None, None)

\* the response to a name that is not in self.tools
UnknownTool(tool_name) ==
    LLMResponse(FALSE, [text |-> "Unknown tool", name |-> tool_name], None, tool_name)

PassThrough_Succeeded(tool_result, tool_name) ==
    LLMResponse(TRUE, tool_result.message, Get(tool_result, "data", None), tool_name)

\* the response built from what the handler returned
PassThrough(tool_result, tool_name) ==
    LLMResponse(tool_result.success, tool_result.message,
                Get(tool_result, "data", None), tool_name)

HasError_Never(tool_call) == FALSE

\* "error" in tool_call
HasError(tool_call) == "error" \in DOMAIN tool_call

\* LLMRouter.process_message; gemini_result is what gemini_llm.process_message
\* returns.  Gives [db, response, call, steps, llm, raised]: call is the handler
\* call made, steps the operations the router went through, llm the classifier
\* call made, raised the step whose fault the router's except clause caught.
process_message(db, t, user_id, client_id, gemini_result) ==
    LET tool_call == gemini_result.tool_call
        tool_name == Get(tool_call, "name", None)
        tool_params == Get(tool_call, "parameters", EmptyDict)
        params == Inject(tool_params, user_id, client_id)
        Reply(db1, llm, steps, call, response) ==
            [db |-> db1, call |-> call, response |-> response, steps |-> steps,
             llm |-> llm, raised |-> None]
        Except(db1, llm, steps) ==
            [db |-> db1, call |-> NoCall, steps |-> steps, llm |-> llm,
             raised |-> steps[Len(steps)],
             response |-> LLMResponse(FALSE, [text |-> "Internal error"], None, None)]
        Respond(db1, llm, tool_result) ==
            Reply(tool_result.db, llm, <<"fetch", "classify", "lookup", "inject", "call">>,
                   [invoked |-> TRUE, name |-> tool_name, params |-> params,
                    result |-> tool_result.result,
                    stmts |-> tool_result.db.stmts - db1.stmts],
                   PassThrough(tool_result.result, tool_name))
        Classified(db1, llm) ==
            IF ~gemini_result.success
            THEN Reply(db1, llm, <<"fetch", "classify">>, NoCall,
                        LLMResponse(FALSE,
                            Get(gemini_result, "message", "Unable to process request"),
                            None, None))
            ELSE IF HasError(tool_call)
            THEN Reply(db1, llm, <<"fetch", "classify">>, NoCall,
                        LLMResponse(FALSE, tool_call.error, None, None))
            ELSE IF ~Hashable(tool_name)
            THEN Except(db1, llm, <<"fetch", "classify", "lookup">>)
            ELSE IF tool_name \notin tools
            THEN Reply(db1, llm, <<"fetch", "classify", "lookup">>, NoCall,
                        UnknownTool(tool_name))
            ELSE IF ~IsDict(tool_params)
            THEN Except(db1, llm, <<"fetch", "classify", "lookup", "inject">>)
            ELSE IF ~Binds(tool_name, params)
            THEN Except(db1, llm, <<"fetch", "classify", "lookup", "inject", "call">>)
            ELSE Respond(db1, llm, CallTool(tool_name, db1, t, params))
        Fetched(recent_result) ==
            IF Raised(recent_result) THEN Except(recent_result.db, NoLlm, <<"fetch">>)
            ELSE Classified(recent_result.db,
                            [invoked |-> TRUE,
                             recent_transactions |->
                                 IF recent_result.result.success
                                 THEN recent_result.result.transactions ELSE <<>>])
    IN  Fetched(TransactionDB_get_recent_transactions(db, user_id, client_id, 5))

(***************************************************************************)
(* main.py: the HTTP endpoints that reach the store without the router.    *)
(***************************************************************************)
\* GET /transactions_by_filter; q holds the query parameters that were given
transactions_by_filter(db, t, user_id, client_id, q) ==
    LET byDates == Given(q, "start_date") /\ Given(q, "end_date")
        Rows(result) ==
            LET txs == result.result.transactions
            IN  [db |-> result.db,
                 result |-> [rows |-> [i \in 1..Len(txs) |->
                               [id |-> txs[i].id, type |-> txs[i].type,
                                amount |-> txs[i].amount, sub_type |-> txs[i].sub_type,
                                whom_to_paid |-> txs[i].whom_to_paid,
                                created_at |-> txs[i].created_at]]]]
        Query(filters) ==
            IF ~byDates /\ TruthyText(q, "filter") /\ DOMAIN filters = {}
            THEN [db |-> db, result |-> [error |-> "Invalid filter value"]]
            ELSE IF ~byDates /\ ~TruthyText(q, "filter")
            THEN [db |-> db,
                  result |-> [error |-> "You must provide a filter or both dates"]]
            ELSE Rows(TransactionDB_get_transactions(db, user_id, client_id, filters))
    IN  Query(IF byDates THEN [date_from |-> q.start_date, date_to |-> q.end_date]
              ELSE IF TruthyText(q, "filter")
              THEN parse_date_filters(q.filter, Today(t))
              ELSE EmptyDict)

RECURSIVE SumOfType(_, _)
SumOfType(txs, type) ==
    IF txs = <<>> THEN 0
    ELSE (IF Head(txs).type = type THEN Head(txs).amount ELSE 0)
         + SumOfType(Tail(txs), type)

\* the query of GET /balance: the rows of the month that holds now
BalanceQuery(db, t, user_id, client_id) ==
    LET FirstOf(ymd) == Replace(ymd.year, ymd.month, 1)
        Day28Of(ymd) == Replace(ymd.year, ymd.month, 28)
        Month(month_start) ==
            TransactionDB_get_transactions(db, user_id, client_id,
                [date_from |-> month_start,
                 date_to |-> FirstOf(Ord2Ymd(Day28Of(Ord2Ymd(month_start)) + 4))])
    IN  Month(FirstOf(Ord2Ymd(Today(t))))

\* GET /balance
get_balance(db, t, user_id, client_id) ==
    LET Totals(income, expense) ==
            [status |-> "success", income |-> income, expense |-> expense,
             net_balance |-> income - expense]
        Summed(result) ==
            [db |-> result.db,
             result |-> Totals(SumOfType(result.result.transactions, "income"),
                               SumOfType(result.result.transactions, "expense"))]
    IN  Summed(BalanceQuery(db, t, user_id, client_id))

\* DELETE /transaction/{transaction_id}
http_delete_transaction(db, transaction_id, user_id, client_id) ==
    LET Reply(result) ==
            IF result.result.success
            THEN [db |-> result.db,
                  result |-> [status |-> "success",
                              message |-> "Transaction deleted successfully."]]
            ELSE [db |-> result.db,
                  result |-> [status |-> "error",
                              message |-> Get(result.result, "message", "Delete failed.")]]
    IN  Reply(TransactionDB_delete_transaction(db, transaction_id, user_id, client_id))

\* PUT /transaction/{transaction_id}; payload = {user_id, client_id, amount}
http_update_transaction(db, transaction_id, payload) ==
    LET updates == [amount |-> payload.amount]
        Reply(result) ==
            IF result.result.success
            THEN [db |-> result.db,
                  result |-> [status |-> "success",
                              message |-> "Transaction updated successfully."]]
            ELSE [db |-> result.db,
                  result |-> [status |-> "error",
                              message |-> Get(result.result, "message", "Update failed.")]]
    IN  Reply(TransactionDB_update_transaction(db, transaction_id, payload.user_id,
                                               payload.client_id, updates))

(***************************************************************************)
(* The requests of the model.                                              *)
(***************************************************************************)
\* the callers: two users of one client, and one user at two clients
Callers == {<<"u1", "c1">>, <<"u2", "c1">>, <<"u1", "c2">>}
Amounts == {-1, 0, 1, 2}
Ids == 0..MaxId

P_today == <<"t", "o", "d", "a", "y">>
P_Yesterday == <<" ", "Y", "e", "s", "t", "e", "r", "d", "a", "y", " ">>
P_this_month == <<"t", "h", "i", "s", "_", "m", "o", "n", "t", "h">>
P_this_month_spaced == <<"t", "h", "i", "s", " ", "m", "o", "n", "t", "h">>
P_this_week == <<"t", "h", "i", "s", "_", "w", "e", "e", "k">>
P_last_week == <<"i", "n", " ", "l", "a", "s", "t", "_", "w", "e", "e", "k">>
P_last_month == <<"l", "a", "s", "t", "_", "m", "o", "n", "t", "h">>
P_tomorrow == <<"t", "o", "m", "o", "r", "r", "o", "w">>
P_last_year == <<"l", "a", "s", "t", " ", "y", "e", "a", "r">>
P_blank == <<" ">>

\* the date phrases of the model
Phrases ==
    {P_today, P_Yesterday, P_this_month, P_this_month_spaced, P_this_week, P_last_week,
     P_last_month, P_tomorrow, P_last_year, P_blank}

\* the parameters the classifier extracts for add_transaction
AddParameters ==
    {[amount |-> a, type |-> "income", sub_type |-> "crop_sale"] : a \in {0, 1}}
    \cup {[amount |-> a, type |-> "expense", whom_to_paid |-> "ravi"] : a \in {-1, 2}}
    \cup {[amount |-> 1, type |-> "savings", user_id |-> "u2", client_id |-> "c2"],
          [amount |-> 1],
          [amount |-> 1, type |-> "income", note |-> "tomatoes"]}

\* the parameters the classifier extracts for get_transaction
GetParameters ==
    {EmptyDict, [type |-> "expense"], [sub_type |-> "crop_sale"],
     [date_filter |-> P_today], [date_filter |-> P_Yesterday],
     [date_filter |-> P_this_month_spaced],
     [type |-> "expense", date_filter |-> P_this_month],
     [amount_min |-> 2], [amount_min |-> 0], [amount_max |-> 1], [amount_max |-> 0],
     [user_id |-> "u2", client_id |-> "c2"]}

\* the fields an update asks to change
UpdateFields ==
    {EmptyDict, [amount |-> 2], [amount |-> 0], [amount |-> -1], [type |-> "expense"],
     [sub_type |-> "crop_sale", whom_to_paid |-> "ravi"]}

\* the parameters the classifier extracts for update_transaction
UpdateParameters ==
    {Update(u, [transaction_id |-> i]) : i \in 1..MaxId, u \in UpdateFields}
    \cup {[amount |-> 2], [transaction_id |-> 0, amount |-> 2],
          [transaction_id |-> 1, amount |-> 2, user_id |-> "u2", client_id |-> "c2"]}

\* the parameters the classifier extracts for delete_transaction
DeleteParameters ==
    {[transaction_id |-> i] : i \in Ids}
    \cup {EmptyDict, [transaction_id |-> 1, user_id |-> "u2", client_id |-> "c2"]}

\* GeminiLLM._parse_response on a reply of the model: prose without a JSON
\* object, text between braces that json.loads rejects, or a decoded object
GeminiLLM_parse_response(reply) ==
    IF reply.kind = "prose" THEN [error |-> "Invalid response format"]
    ELSE IF reply.kind = "undecodable" THEN [error |-> "Invalid JSON response"]
    ELSE IF "error" \in DOMAIN reply.parsed THEN [error |-> reply.parsed.error]
    ELSE IF "name" \notin DOMAIN reply.parsed THEN [error |-> "No function name specified"]
    ELSE reply.parsed

\* GeminiLLM.process_message: a failing generate_content call is caught and
\* reported, any reply it returns is parsed (raw_response is read by no caller)
GeminiLLM_process_message(reply) ==
    IF reply.kind = "raises"
    THEN [success |-> FALSE, error |-> "generate_content",
          message |-> "Unable to process your request. Please try again."]
    ELSE [success |-> TRUE, tool_call |-> GeminiLLM_parse_response(reply)]

\* the objects the model's reply decodes to
ParsedReplies ==
    {[error |-> "Unable to understand the request"],
     [error |-> "Unable to understand the request", name |-> "delete_transaction",
      parameters |-> [transaction_id |-> 1]],
     [parameters |-> [transaction_id |-> 1]],
     [name |-> "transfer_money", parameters |-> EmptyDict],
     [name |-> ListName, parameters |-> EmptyDict],
     [name |-> "get_transaction", parameters |-> NotADict],
     [name |-> "get_transaction"]}
    \cup {[name |-> "add_transaction", parameters |-> p] : p \in AddParameters}
    \cup {[name |-> "get_transaction", parameters |-> p] : p \in GetParameters}
    \cup {[name |-> "update_transaction", parameters |-> p] : p \in UpdateParameters}
    \cup {[name |-> "delete_transaction", parameters |-> p] : p \in DeleteParameters}

\* what the model can answer a prompt with
Replies ==
    {[kind |-> "raises"], [kind |-> "prose"], [kind |-> "undecodable"]}
    \cup {[kind |-> "json", parsed |-> m] : m \in ParsedReplies}

\* what gemini_llm.process_message can return
GeminiResults == {GeminiLLM_process_message(reply) : reply \in Replies}

\* the query parameters of GET /transactions_by_filter
FilterQueries ==
    {EmptyDict, [filter |-> P_today], [filter |-> P_Yesterday],
     [filter |-> P_this_month_spaced],
     [start_date |-> EpochOrdinal, end_date |-> EpochOrdinal + 1]}

\* the statement of a request that fails in the store: none (0), the first, the
\* second or the third (a message sends at most three)
Faults == {0, 1, 2, 3}

\* the updates dicts handed to the store's update directly
StoreUpdates ==
    {EmptyDict, [id |-> 2], [created_at |-> 0, user_id |-> "u2"],
     [amount |-> 2, id |-> 2, client_id |-> "c2"], [type |-> "expense"],
     [sub_type |-> "crop_sale", created_at |-> 0]}

(***************************************************************************)
(* The state machine.  A request is served in one step, from its arrival   *)
(* to its answer (the service handles a request end to end on one thread); *)
(* resp keeps the request and the answer until the caller has taken it.    *)
(***************************************************************************)
Idle == [op |-> "idle"]

\* the database as a request finds it
Db == [transactions |-> transactions, auto_increment |-> auto_increment, stmts |-> 0,
       fault |-> 0]

\* the database as a request finds it when its statement number `fault` will fail
FaultyDb(fault) == [Db EXCEPT !.fault = fault]

IdsOf(txs) == {txs[i].id : i \in 1..Len(txs)}

Init ==
    /\ transactions = {}
    /\ auto_increment = 1
    /\ now = 0
    /\ writes = 0
    /\ prev = {}
    /\ resp = Idle

\* the request `request` of (user_id, client_id) is answered: the database becomes
\* db; `returned` are the ids of the rows the request was shown
Answer(op, user_id, client_id, request, db, success, result, call, returned) ==
    /\ resp.op = "idle"
    /\ db.auto_increment <= MaxId + 1
    /\ transactions' = db.transactions
    /\ auto_increment' = db.auto_increment
    /\ db.transactions # transactions => writes < MaxWrites
    /\ writes' = IF db.transactions # transactions THEN writes + 1 ELSE writes
    /\ prev' = transactions
    /\ resp' = [op |-> op, user_id |-> user_id, client_id |-> client_id,
                request |-> request, success |-> success, result |-> result,
                call |-> call, stmts |-> db.stmts, returned |-> returned]
    /\ UNCHANGED now

\* the ids of the rows a handler call showed its caller
Shown(call) ==
    IF ~call.invoked THEN {}
    ELSE CASE call.name = "get_transaction" ->
                IF call.result.success THEN IdsOf(call.result.data.transactions) ELSE {}
           [] call.name \in {"update_transaction", "delete_transaction"} ->
                IF call.result.success THEN {call.params.transaction_id} ELSE {}
           [] OTHER -> {}

\* POST /llm/transaction-message: the router serves a message the classifier
\* answers with gemini_result, while statement number `fault` of the request (none
\* when 0) fails in the store
Message(user_id, client_id, gemini_result, fault) ==
    LET Served(r) ==
            /\ resp.op = "idle"
            /\ fault \in {0, r.db.stmts}
            /\ Answer("message", user_id, client_id,
                      IF r.llm.invoked THEN gemini_result ELSE Unasked, r.db,
                      r.response.success, r.response,
                      Update(r.call, [steps |-> r.steps, llm |-> r.llm,
                                      raised |-> r.raised, fault |-> fault]),
                      IdsOf(r.llm.recent_transactions) \cup Shown(r.call))
    IN  Served(process_message(FaultyDb(fault), now, user_id, client_id, gemini_result))

\* GET /transactions_by_filter
TransactionsByFilter(user_id, client_id, q) ==
    LET Served(r) ==
            Answer("transactions_by_filter", user_id, client_id, q, r.db,
                   "rows" \in DOMAIN r.result, r.result, NoCall,
                   IF "rows" \in DOMAIN r.result THEN IdsOf(r.result.rows) ELSE {})
    IN  Served(transactions_by_filter(Db, now, user_id, client_id, q))

\* GET /balance
Balance(user_id, client_id) ==
    LET Served(r) ==
            Answer("balance", user_id, client_id, EmptyDict, r.db, TRUE, r.result, NoCall,
                   IdsOf(BalanceQuery(Db, now, user_id, client_id).result.transactions))
    IN  Served(get_balance(Db, now, user_id, client_id))

\* DELETE /transaction/{transaction_id}
HttpDelete(transaction_id, user_id, client_id) ==
    LET Served(r) ==
            Answer("http_delete", user_id, client_id, [transaction_id |-> transaction_id],
                   r.db, r.result.status = "success", r.result, NoCall, {})
    IN  Served(http_delete_transaction(Db, transaction_id, user_id, client_id))

\* PUT /transaction/{transaction_id}
HttpPut(transaction_id, user_id, client_id, amount) ==
    LET Served(r) ==
            Answer("http_put", user_id, client_id,
                   [transaction_id |-> transaction_id, amount |-> amount],
                   r.db, r.result.status = "success", r.result, NoCall, {})
    IN  Served(http_update_transaction(Db, transaction_id,
                   [user_id |-> user_id, client_id |-> client_id, amount |-> amount]))

\* the caller takes the answer
Return ==
    /\ resp.op # "idle"
    /\ resp' = Idle
    /\ prev' = transactions
    /\ UNCHANGED <<transactions, auto_increment, now, writes>>

\* time passes
Tick ==
    /\ resp.op = "idle"
    /\ now < MaxNow
    /\ writes < MaxWrites
    /\ now' = now + 1
    /\ writes' = writes + 1
    /\ UNCHANGED <<transactions, auto_increment, prev, resp>>

Next ==
    \/ \E k \in Callers, g \in GeminiResults, f \in Faults : Message(k[1], k[2], g, f)
    \/ \E k \in Callers, q \in FilterQueries : TransactionsByFilter(k[1], k[2], q)
    \/ \E k \in Callers : Balance(k[1], k[2])
    \/ \E i \in Ids, k \in Callers : HttpDelete(i, k[1], k[2])
    \/ \E i \in 1..MaxId, k \in Callers, a \in {0, 2} : HttpPut(i, k[1], k[2], a)
    \/ Return
    \/ Tick

Spec == Init /\ [][Next]_vars

(***************************************************************************)
(* The store called directly, as a caller inside the process may.          *)
(***************************************************************************)
StoreUpdate(transaction_id, user_id, client_id, updates) ==
    LET Served(r) ==
            Answer("store_update", user_id, client_id,
                   [transaction_id |-> transaction_id, updates |-> updates],
                   r.db, r.result.success, r.result, NoCall, {})
    IN  Served(TransactionDB_update_transaction(Db, transaction_id, user_id, client_id,
                                                updates))

StoreGetById(transaction_id, user_id, client_id) ==
    LET Served(r) ==
            Answer("store_get_by_id", user_id, client_id,
                   [transaction_id |-> transaction_id],
                   r.db, r.result.success, r.result, NoCall,
                   IF r.result.success THEN {r.result.transaction.id} ELSE {})
    IN  Served(TransactionDB_get_transaction_by_id(Db, transaction_id, user_id, client_id))

StoreDelete(transaction_id, user_id, client_id) ==
    LET Served(r) ==
            Answer("store_delete", user_id, client_id, [transaction_id |-> transaction_id],
                   r.db, r.result.success, r.result, NoCall, {})
    IN  Served(TransactionDB_delete_transaction(Db, transaction_id, user_id, client_id))

NextStore ==
    \/ Next
    \/ \E i \in 1..MaxId, k \in Callers, d \in StoreUpdates : StoreUpdate(i, k[1], k[2], d)
    \/ \E i \in Ids, k \in Callers : StoreGetById(i, k[1], k[2])
    \/ \E i \in Ids, k \in Callers : StoreDelete(i, k[1], k[2])

SpecStore == Init /\ [][NextStore]_vars

(***************************************************************************)
(* The date-filter resolver over the calendar: the service is found on any *)
(* day of MaxDay days, with no row or with one row stored on the first.    *)
(***************************************************************************)
MaxDay == 1200      \* days after EpochOrdinal, to April 2028

InitDates ==
    /\ transactions \in
         {{}, {[id |-> 1, client_id |-> "c1", user_id |-> "u1", amount |-> 1,
                type |-> "income", sub_type |-> None, whom_to_paid |-> None,
                created_at |-> 0]}}
    /\ auto_increment = Cardinality(transactions) + 1
    /\ now \in {d * TicksPerDay : d \in 0..MaxDay}
    /\ writes = 0
    /\ prev = transactions
    /\ resp = Idle

\* parse_date_filters(date_text) is called
ParseDateFilters(date_text) ==
    Answer("parse_date_filters", None, None, [date_text |-> date_text], Db, TRUE,
           parse_date_filters(date_text, Today(now)), NoCall, {})

\* a message classified as a get with a date phrase
GetByPhrase(user_id, client_id, date_filter) ==
    Message(user_id, client_id,
            [success |-> TRUE,
             tool_call |-> [name |-> "get_transaction",
                            parameters |-> [date_filter |-> date_filter]]], 0)

NextDates ==
    \/ \E ph \in Phrases : ParseDateFilters(ph)
    \/ \E k \in Callers, ph \in Phrases : GetByPhrase(k[1], k[2], ph)
    \/ Return

SpecDates == InitDates /\ [][NextDates]_vars

(***************************************************************************)
(* llm/router.py step by step: one message in flight, resp holding the     *)
(* router's position (pc), the positions it went through (visited), what   *)
(* it called and what it returned.                                         *)
(***************************************************************************)
RouterCallers == {<<"u1", "c1">>, <<"u2", "c1">>}

\* the message of (user_id, client_id) enters process_message
Routing(user_id, client_id) ==
    [op |-> "routing", pc |-> "start", visited |-> <<"start">>,
     user_id |-> user_id, client_id |-> client_id, before |-> auto_increment,
     stmts |-> 0, fault |-> 0, recent_transactions |-> <<>>,
     gemini_result |-> Unasked, call |-> NoCall, llm_calls |-> 0,
     handler_calls |-> 0, raised |-> None, responses |-> <<>>]

\* the run moves on to pc
Goto(run, pc) == [run EXCEPT !.pc = pc, !.visited = Append(@, pc)]

\* the run returns response
Returned(run, response) ==
    [Goto(run, "done") EXCEPT !.responses = Append(@, response)]

\* the except clause catches what step raised and returns the internal error
Caught(run, step) ==
    [Returned(run, LLMResponse(FALSE, [text |-> "Internal error"], None, None))
        EXCEPT !.raised = step]

\* gemini_result names a handler that writes to the table
Writes(gemini_result) ==
    /\ gemini_result.success
    /\ ~HasError(gemini_result.tool_call)
    /\ gemini_result.tool_call.name \in
           {"add_transaction", "update_transaction", "delete_transaction"}

RouterStart(user_id, client_id) ==
    /\ resp.op = "idle"
    /\ resp' = Routing(user_id, client_id)
    /\ prev' = transactions
    /\ UNCHANGED <<transactions, auto_increment, now, writes>>

\* the recent transactions are fetched; fails: the SELECT raises
RouterFetch(fails) ==
    LET Fetched(r) ==
            resp' = IF Raised(r)
                    THEN Caught([resp EXCEPT !.stmts = r.db.stmts, !.fault = 1], "fetch")
                    ELSE [Goto(resp, "context-fetched") EXCEPT
                             !.stmts = r.db.stmts,
                             !.recent_transactions = r.result.transactions]
    IN  /\ resp.op = "routing"
        /\ resp.pc = "start"
        /\ Fetched(TransactionDB_get_recent_transactions(
               FaultyDb(IF fails THEN 1 ELSE 0), resp.user_id, resp.client_id, 5))
        /\ UNCHANGED <<transactions, auto_increment, now, writes, prev>>

\* the classifier is invoked and answers gemini_result
RouterClassify(gemini_result) ==
    LET Asked(run) ==
            IF ~gemini_result.success
            THEN Returned(run, LLMResponse(FALSE,
                     Get(gemini_result, "message", "Unable to process request"),
                     None, None))
            ELSE Goto(run, "classified")
    IN  /\ resp.op = "routing"
        /\ resp.pc = "context-fetched"
        /\ Writes(gemini_result) => writes < MaxWrites /\ auto_increment <= MaxId
        /\ resp' = Asked([resp EXCEPT !.gemini_result = gemini_result,
                                      !.llm_calls = @ + 1])
        /\ UNCHANGED <<transactions, auto_increment, now, writes, prev>>

\* the extracted call is checked for an error and its name looked up
RouterValidate ==
    LET Checked(tool_call, tool_name) ==
            IF HasError(tool_call)
            THEN Returned(resp, LLMResponse(FALSE, tool_call.error, None, None))
            ELSE IF ~Hashable(tool_name) THEN Caught(resp, "lookup")
            ELSE IF tool_name \notin tools THEN Returned(resp, UnknownTool(tool_name))
            ELSE Goto(resp, "validated")
    IN  /\ resp.op = "routing"
        /\ resp.pc = "classified"
        /\ resp' = Checked(resp.gemini_result.tool_call,
                           Get(resp.gemini_result.tool_call, "name", None))
        /\ UNCHANGED <<transactions, auto_increment, now, writes, prev>>

\* the caller's identity is injected and the handler called; its statement
\* number `fault` of the request raises
RouterDispatch(fault) ==
    LET Ran(tool_name, params, r) ==
            /\ fault = 0 \/ (fault > resp.stmts /\ fault = r.db.stmts)
            /\ transactions' = r.db.transactions
            /\ auto_increment' = r.db.auto_increment
            /\ writes' = IF r.db.transactions # transactions THEN writes + 1 ELSE writes
            /\ resp' = [Goto(resp, "dispatched") EXCEPT
                           !.stmts = r.db.stmts, !.fault = fault,
                           !.handler_calls = @ + 1,
                           !.call = [invoked |-> TRUE, name |-> tool_name,
                                     params |-> params, result |-> r.result,
                                     stmts |-> r.db.stmts - resp.stmts]]
        Invoke(tool_name, tool_params) ==
            IF ~IsDict(tool_params)
            THEN /\ fault = 0
                 /\ resp' = Caught(resp, "inject")
                 /\ UNCHANGED <<transactions, auto_increment, writes>>
            ELSE IF ~Binds(tool_name, Inject(tool_params, resp.user_id, resp.client_id))
            THEN /\ fault = 0
                 /\ resp' = Caught(resp, "call")
                 /\ UNCHANGED <<transactions, auto_increment, writes>>
            ELSE \E r \in {CallTool(tool_name,
                                   [Db EXCEPT !.stmts = resp.stmts, !.fault = fault], now,
                                   Inject(tool_params, resp.user_id, resp.client_id))} :
                     Ran(tool_name, Inject(tool_params, resp.user_id, resp.client_id), r)
    IN  /\ resp.op = "routing"
        /\ resp.pc = "validated"
        /\ Invoke(resp.gemini_result.tool_call.name,
                  Get(resp.gemini_result.tool_call, "parameters", EmptyDict))
        /\ UNCHANGED <<now, prev>>

RouterFinish_Twice ==
    /\ resp.op = "routing"
    /\ resp.pc = "dispatched"
    /\ resp' = [Returned(resp, PassThrough(resp.call.result, resp.call.name))
                   EXCEPT !.responses = @ \o @]
    /\ UNCHANGED <<transactions, auto_increment, now, writes, prev>>

\* the handler returned: its result is passed through
RouterFinish ==
    /\ resp.op = "routing"
    /\ resp.pc = "dispatched"
    /\ resp' = Returned(resp, PassThrough(resp.call.result, resp.call.name))
    /\ UNCHANGED <<transactions, auto_increment, now, writes, prev>>

\* the caller has the response; the next message can come
RouterReturn ==
    /\ resp.op = "routing"
    /\ resp.pc = "done"
    /\ resp' = Idle
    /\ prev' = transactions
    /\ UNCHANGED <<transactions, auto_increment, now, writes>>

\* a step of process_message
RouterStep ==
    \/ \E fails \in BOOLEAN : RouterFetch(fails)
    \/ \E g \in GeminiResults : RouterClassify(g)
    \/ RouterValidate
    \/ \E f \in Faults : RouterDispatch(f)
    \/ RouterFinish

NextRouter ==
    \/ \E k \in RouterCallers : RouterStart(k[1], k[2])
    \/ RouterStep
    \/ RouterReturn

\* process_message runs on: its calls return or raise, and it has no loop
SpecRouter == Init /\ [][NextRouter]_vars /\ WF_vars(RouterStep)

(***************************************************************************)
(* llm/gemini_llm.py _parse_response on the text of a reply.  A text is a  *)
(* sequence of lexemes: the braces, the comma, a blank, a word of prose    *)
(* ("x") and the members "e" ("error": "reason"), "n" ("name":             *)
(* "get_transaction") and "p" ("parameters": with the object that follows).*)
(***************************************************************************)
MaxText == 6        \* lexemes in a reply

Lexemes == {"{", "}", ",", " ", "x", "e", "n", "p"}

\* response.text is None
NoText == <<None>>

\* the replies of the model: every text of MaxText lexemes, and no text
Texts == UNION {[1..k -> Lexemes] : k \in 0..MaxText} \cup {NoText}

\* str.find(c) and str.rfind(c): the index from 0, -1 when c is not in s
Find(s, c) ==
    IF \E i \in 1..Len(s) : s[i] = c
    THEN (CHOOSE i \in 1..Len(s) : s[i] = c /\ \A j \in 1..(i - 1) : s[j] # c) - 1
    ELSE -1

RFind(s, c) ==
    IF \E i \in 1..Len(s) : s[i] = c
    THEN (CHOOSE i \in 1..Len(s) : s[i] = c /\ \A j \in (i + 1)..Len(s) : s[j] # c) - 1
    ELSE -1

\* s[start:end]
Slice(s, start, end) == SubSeq(s, start + 1, end)

\* the first place from i on that holds no blank
RECURSIVE SkipBlanks(_, _)
SkipBlanks(s, i) ==
    IF i <= Len(s) /\ s[i] = " " THEN Eager({SkipBlanks(s, k) : k \in {i + 1}}) ELSE i

\* the decoder found no value
NoValue == [ok |-> FALSE, next |-> 0, value |-> EmptyDict]

\* json.loads: an object from place i of s, as [ok, next, value]; a key given
\* twice keeps its last value
RECURSIVE JsonObject(_, _), JsonMember(_, _, _), JsonAfterMember(_, _, _)
JsonObject(s, i) ==
    IF i > Len(s) \/ s[i] # "{" THEN NoValue
    ELSE Eager({IF j <= Len(s) /\ s[j] = "}"
                THEN [ok |-> TRUE, next |-> j + 1, value |-> EmptyDict]
                ELSE JsonMember(s, j, EmptyDict) : j \in {SkipBlanks(s, i + 1)}})

JsonMember(s, i, members) ==
    IF i > Len(s) THEN NoValue
    ELSE IF s[i] = "e"
    THEN JsonAfterMember(s, i + 1, Update(members, [error |-> "reason"]))
    ELSE IF s[i] = "n"
    THEN JsonAfterMember(s, i + 1, Update(members, [name |-> "get_transaction"]))
    ELSE IF s[i] = "p"
    THEN Eager({IF o.ok
                THEN JsonAfterMember(s, o.next, Update(members, [parameters |-> o.value]))
                ELSE NoValue : o \in {JsonObject(s, SkipBlanks(s, i + 1))}})
    ELSE NoValue

JsonAfterMember(s, i, members) ==
    Eager({IF j > Len(s) THEN NoValue
           ELSE IF s[j] = "}" THEN [ok |-> TRUE, next |-> j + 1, value |-> members]
           ELSE IF s[j] = "," THEN JsonMember(s, SkipBlanks(s, j + 1), members)
           ELSE NoValue : j \in {SkipBlanks(s, i)}})

\* json.loads(json_str): the value, or JSONDecodeError
JsonLoads(json_str) ==
    Eager({IF o.ok /\ SkipBlanks(json_str, o.next) > Len(json_str)
           THEN [returned |-> o.value]
           ELSE [raised |-> "JSONDecodeError"] :
             o \in {JsonObject(json_str, SkipBlanks(json_str, 1))}})

\* the body of _parse_response's try block: [returned] or [raised]
ParseTry(response_text0) ==
    LET Extract(response_text, start_idx, end_idx) ==
            IF start_idx # -1 /\ end_idx > start_idx
            THEN Eager({IF "raised" \in DOMAIN parsed THEN parsed
                        ELSE IF "error" \in DOMAIN parsed.returned
                        THEN [returned |-> [error |-> parsed.returned.error]]
                        ELSE IF "name" \notin DOMAIN parsed.returned
                        THEN [returned |-> [error |-> "No function name specified"]]
                        ELSE parsed :
                          parsed \in {JsonLoads(Slice(response_text, start_idx, end_idx))}})
            ELSE [returned |-> [error |-> "Invalid response format"]]
    IN  IF response_text0 = NoText THEN [raised |-> "AttributeError"]
        ELSE Eager({Extract(response_text, Find(response_text, "{"),
                            RFind(response_text, "}") + 1) :
                      response_text \in {Strip(response_text0)}})

ParseExcept_JSONOnly(exception) ==
    IF exception = "JSONDecodeError" THEN [returned |-> [error |-> "Invalid JSON response"]]
    ELSE [raised |-> exception]

\* _parse_response's except clauses
ParseExcept(exception) ==
    IF exception = "JSONDecodeError" THEN [returned |-> [error |-> "Invalid JSON response"]]
    ELSE [returned |-> [error |-> "Error parsing response"]]

\* GeminiLLM._parse_response(response_text): [returned |-> the mapping], or
\* [raised] if a fault left it
parse_response(response_text) ==
    Eager({IF "raised" \in DOMAIN r THEN ParseExcept(r.raised) ELSE r :
             r \in {ParseTry(response_text)}})

\* the model has replied with one of the texts
InitParse ==
    /\ transactions = {}
    /\ auto_increment = 1
    /\ now = 0
    /\ writes = 0
    /\ prev = {}
    /\ resp \in {[op |-> "replied", text |-> text] : text \in Texts}

\* _parse_response(response.text) is called
ParseResponse ==
    /\ resp.op = "replied"
    /\ resp' = [op |-> "parse_response", text |-> resp.text,
                result |-> parse_response(resp.text)]
    /\ UNCHANGED <<transactions, auto_increment, now, writes, prev>>

\* the caller has what the parser gave
ParseReturn ==
    /\ resp.op = "parse_response"
    /\ resp' = Idle
    /\ UNCHANGED <<transactions, auto_increment, now, writes, prev>>

NextParse ==
    \/ ParseResponse
    \/ ParseReturn

SpecParse == InitParse /\ [][NextParse]_vars

(***************************************************************************)
(* Two handler calls in flight, as two workers of the service make them on *)
(* one table: each statement is atomic, the statements of the two calls    *)
(* come in any order.  resp holds both calls: where each is (pc), the row  *)
(* its lookup returned, the table its write found, and what it returned.   *)
(***************************************************************************)
HandlerCallers == {<<"u1", "c1">>, <<"u2", "c1">>}

\* the fields the updates in flight ask to change
HandlerFields ==
    {EmptyDict, [amount |-> 2], [amount |-> 3], [amount |-> 0], [type |-> "expense"]}

\* the update and delete calls the router makes
HandlerCalls ==
    {[name |-> "update_transaction",
      p |-> Inject(Update(u, [transaction_id |-> i]), k[1], k[2])] :
         i \in 1..MaxId, u \in HandlerFields, k \in HandlerCallers}
    \cup {[name |-> "delete_transaction",
           p |-> Inject([transaction_id |-> i], k[1], k[2])] :
              i \in Ids, k \in HandlerCallers}

\* the handler is entered
Run(call) ==
    [name |-> call.name, p |-> call.p, pc |-> "called", statements |-> 0,
     faulted |-> FALSE, original |-> EmptyDict, looked |-> {}, before |-> {},
     result |-> EmptyDict]

\* the handler returns result
HandlerReturns(run, result) == [run EXCEPT !.pc = "returned", !.result = result]

\* the message of the handler's except clause
ErrorMessage(name) ==
    IF name = "update_transaction" THEN "Error updating transaction"
    ELSE "Error deleting transaction"

\* the checks before the pre-image lookup: the message of the refusal, or None
Refusal(name, p) ==
    IF InvalidId(p.transaction_id) THEN "Invalid transaction ID"
    ELSE IF name = "update_transaction" /\ Given(p, "amount") /\ NonPositive(p.amount)
    THEN "Amount must be greater than 0"
    ELSE IF name = "update_transaction" /\ DOMAIN HandlerUpdates(p) = {}
    THEN "No fields to update"
    ELSE None

\* what update_transaction returns after the store's update returned or raised
UpdateReturns(p, original_tx, result) ==
    IF Raised(result) THEN Failure(result.db, "Error updating transaction").result
    ELSE IF result.result.success
    THEN [success |-> TRUE,
          message |-> [text |-> "Updated transaction", id |-> p.transaction_id,
                       changes |-> [f \in DOMAIN HandlerUpdates(p) |->
                                       [old |-> original_tx[f],
                                        new |-> HandlerUpdates(p)[f]]]],
          data |-> [transaction_id |-> p.transaction_id,
                    changes |-> HandlerUpdates(p)]]
    ELSE result.result

DeleteReturns_Found(p, transaction, result) ==
    LET deleted == [id |-> p.transaction_id, amount |-> transaction.amount,
                    type |-> transaction.type, sub_type |-> transaction.sub_type,
                    whom_to_paid |-> transaction.whom_to_paid]
    IN  IF Raised(result) THEN Failure(result.db, "Error deleting transaction").result
        ELSE [success |-> TRUE, message |-> [text |-> "Deleted", tx |-> deleted],
              data |-> [deleted_transaction |-> deleted]]

\* what delete_transaction returns after the store's delete returned or raised
DeleteReturns(p, transaction, result) ==
    LET deleted == [id |-> p.transaction_id, amount |-> transaction.amount,
                    type |-> transaction.type, sub_type |-> transaction.sub_type,
                    whom_to_paid |-> transaction.whom_to_paid]
    IN  IF Raised(result) THEN Failure(result.db, "Error deleting transaction").result
        ELSE IF result.result.success
        THEN [success |-> TRUE, message |-> [text |-> "Deleted", tx |-> deleted],
              data |-> [deleted_transaction |-> deleted]]
        ELSE result.result

\* a row is there: an add handler call was served
HandlerAdd(user_id, client_id, p) ==
    /\ resp.op = "idle"
    /\ writes < MaxWrites
    /\ auto_increment <= MaxId
    /\ Binds("add_transaction", Inject(p, user_id, client_id))
    /\ \E r \in {add_transaction(Db, now, Inject(p, user_id, client_id))} :
           /\ transactions' = r.db.transactions
           /\ auto_increment' = r.db.auto_increment
    /\ writes' = writes + 1
    /\ prev' = transactions'
    /\ UNCHANGED <<now, resp>>

\* two calls are dispatched
HandlersStart(call1, call2) ==
    /\ resp.op = "idle"
    /\ writes < MaxWrites
    /\ writes' = writes + 1
    /\ resp' = [op |-> "handlers", runs |-> <<Run(call1), Run(call2)>>]
    /\ prev' = transactions
    /\ UNCHANGED <<transactions, auto_increment, now>>

\* call i checks its arguments and looks the row up; fails: the SELECT raises
HandlerLookup(i, fails) ==
    LET Looked(run, original_result) ==
            IF Raised(original_result)
            THEN HandlerReturns([run EXCEPT !.faulted = TRUE],
                                Failure(Db, ErrorMessage(run.name)).result)
            ELSE IF ~original_result.result.success
            THEN HandlerReturns(run, Failure(Db, "Transaction not found").result)
            ELSE [run EXCEPT !.pc = "looked",
                             !.original = original_result.result.transaction]
        Entered(run) ==
            IF Refusal(run.name, run.p) # None
            THEN /\ ~fails
                 /\ resp' = [resp EXCEPT !.runs[i] =
                               HandlerReturns(run, Failure(Db, Refusal(run.name, run.p)).result)]
            ELSE \E r \in {TransactionDB_get_transaction_by_id(
                               FaultyDb(IF fails THEN 1 ELSE 0), run.p.transaction_id,
                               run.p.user_id, run.p.client_id)} :
                     resp' = [resp EXCEPT !.runs[i] =
                                Looked([run EXCEPT !.statements = 1,
                                                   !.looked = transactions], r)]
    IN  /\ resp.op = "handlers"
        /\ resp.runs[i].pc = "called"
        /\ Entered(resp.runs[i])
        /\ UNCHANGED <<transactions, auto_increment, now, writes, prev>>

\* call i sends its UPDATE or DELETE and returns; fails: the statement raises
HandlerWrite(i, fails) ==
    LET Sent(run, db) ==
            IF run.name = "update_transaction"
            THEN TransactionDB_update_transaction(db, run.p.transaction_id, run.p.user_id,
                                                  run.p.client_id, HandlerUpdates(run.p))
            ELSE TransactionDB_delete_transaction(db, run.p.transaction_id, run.p.user_id,
                                                  run.p.client_id)
        Wrote(run, result) ==
            /\ transactions' = result.db.transactions
            /\ resp' = [resp EXCEPT !.runs[i] =
                          HandlerReturns(
                              [run EXCEPT !.statements = 2, !.before = transactions,
                                          !.faulted = Raised(result)],
                              IF run.name = "update_transaction"
                              THEN UpdateReturns(run.p, run.original, result)
                              ELSE DeleteReturns(run.p, run.original, result))]
    IN  /\ resp.op = "handlers"
        /\ resp.runs[i].pc = "looked"
        /\ \E r \in {Sent(resp.runs[i], FaultyDb(IF fails THEN 1 ELSE 0))} :
               Wrote(resp.runs[i], r)
        /\ UNCHANGED <<auto_increment, now, writes, prev>>

\* both calls have returned
HandlersReturn ==
    /\ resp.op = "handlers"
    /\ \A i \in 1..2 : resp.runs[i].pc = "returned"
    /\ resp' = Idle
    /\ prev' = transactions
    /\ UNCHANGED <<transactions, auto_increment, now, writes>>

NextHandlers ==
    \/ \E k \in HandlerCallers, p \in AddParameters : HandlerAdd(k[1], k[2], p)
    \/ \E call1, call2 \in HandlerCalls : HandlersStart(call1, call2)
    \/ \E i \in 1..2, fails \in BOOLEAN : HandlerLookup(i, fails)
    \/ \E i \in 1..2, fails \in BOOLEAN : HandlerWrite(i, fails)
    \/ HandlersReturn

SpecHandlers == Init /\ [][NextHandlers]_vars

(***************************************************************************)
(* What the claims speak of.                                               *)
(***************************************************************************)
\* the last request was a message the router dispatched to handler `name`
Called(name) == resp.op = "message" /\ resp.call.invoked /\ resp.call.name = name

\* the rows of a table that belong to the caller of the last request
Mine(table) == {tx \in table : InScope(tx, resp.user_id, resp.client_id)}

\* the rows the last request added, changed or removed
Touched == (prev \ transactions) \cup (transactions \ prev)

\* C1: a request of scope (user_id, client_id) is shown, and adds, changes or
\* removes, only rows whose (user_id, client_id) is exactly that scope.
C1_TenantIsolation ==
    resp.op # "idle" =>
        /\ \A tx \in prev : tx.id \in resp.returned => tx \in Mine(prev)
        /\ \A tx \in Touched : InScope(tx, resp.user_id, resp.client_id)

\* a delete handler was asked for the id of another tenant's row, which stayed
C1_Witness ==
    /\ Called("delete_transaction")
    /\ \E tx \in prev \ Mine(prev) : tx.id = resp.call.params.transaction_id
    /\ Mine(prev) # {}
    /\ transactions = prev

\* C2: every stored transaction has amount > 0, whichever of the add handler,
\* the update handler and PUT /transaction/{id} wrote it.
C2_StoredAmountPositive == \A tx \in transactions : tx.amount > 0

\* C3: an add or update handler given an amount <= 0 answers success = false
\* without a single statement sent to the store, and the rows stay as they were.
C3_NonPositiveAmountRejected ==
    /\ (Called("add_transaction") \/ Called("update_transaction"))
    /\ "amount" \in DOMAIN resp.call.params
    /\ resp.call.params.amount <= 0
    => /\ ~resp.call.result.success
       /\ resp.call.stmts = 0
       /\ transactions = prev

\* the update handler was given amount 0 for a row of the caller's
C3_Witness ==
    /\ Called("update_transaction")
    /\ "amount" \in DOMAIN resp.call.params
    /\ resp.call.params.amount = 0
    /\ \E tx \in Mine(prev) : tx.id = resp.call.params.transaction_id

\* C4: the user_id and client_id a handler receives from the router are the
\* caller's own, whatever keys the classifier's parameters hold.
C4_CallerIdentityInjected ==
    resp.op = "message" /\ resp.call.invoked =>
        /\ resp.call.params.user_id = resp.user_id
        /\ resp.call.params.client_id = resp.client_id

\* a handler ran for parameters that named another user and client
C4_Witness ==
    /\ resp.op = "message" /\ resp.call.invoked
    /\ "parameters" \in DOMAIN resp.request.tool_call
    /\ "user_id" \in DOMAIN resp.request.tool_call.parameters
    /\ resp.request.tool_call.parameters.user_id # resp.user_id
    /\ resp.request.tool_call.parameters.client_id # resp.client_id

\* what the get handler answers the last caller, asked with no filters now
GetAfter ==
    get_transaction(Db, now, [user_id |-> resp.user_id, client_id |-> resp.client_id]).result

\* a successful add into a scope that had no rows
AddedToEmptyScope ==
    Called("add_transaction") /\ resp.call.result.success /\ Mine(prev) = {}

\* C5: after a successful add into a scope with no rows, a get with no filters
\* in that scope gives exactly one row, with the amount, type and sub_type that
\* were added, and for type income a signed total of +amount.
C5_AddGetRoundTrip ==
    AddedToEmptyScope =>
        /\ GetAfter.success
        /\ GetAfter.data.count = 1
        /\ Len(GetAfter.data.transactions) = 1
        /\ GetAfter.data.transactions[1].amount = resp.call.params.amount
        /\ GetAfter.data.transactions[1].type = resp.call.params.type
        /\ GetAfter.data.transactions[1].sub_type = Get(resp.call.params, "sub_type", None)
        /\ resp.call.params.type = "income" =>
               GetAfter.data.total_amount = resp.call.params.amount

\* an income with a sub_type was added to an empty scope beside another tenant's row
C5_Witness ==
    /\ AddedToEmptyScope
    /\ resp.call.params.type = "income"
    /\ "sub_type" \in DOMAIN resp.call.params
    /\ prev # {}

\* C6: an add with a valid amount, its INSERT served by the store, succeeds and
\* leaves the caller's scope with exactly one row more, also when a row of the
\* same values is already there.
C6_AddNotDeduplicated ==
    Called("add_transaction") /\ resp.call.params.amount > 0 /\ resp.call.fault = 0 =>
        /\ resp.call.result.success
        /\ Cardinality(Mine(transactions)) = Cardinality(Mine(prev)) + 1
        /\ prev \subseteq transactions

\* the same add was served twice: two rows of the same values
C6_Witness ==
    /\ Called("add_transaction") /\ resp.call.result.success
    /\ \E a \in Mine(prev) : \E b \in transactions \ prev : SameValues(a, b) /\ a.id # b.id

\* the last request asked to delete row `id`: by the handler, the store or DELETE
DeleteOf(id) ==
    \/ Called("delete_transaction") /\ resp.call.params.transaction_id = id
    \/ resp.op \in {"http_delete", "store_delete"} /\ resp.request.transaction_id = id

\* C7: a delete of an id that is no row of the caller's scope answers
\* success = false and leaves the stored rows as they were.
C7_DeleteMissing ==
    \A id \in Ids :
        DeleteOf(id) /\ ~(\E tx \in Mine(prev) : tx.id = id) =>
            ~resp.success /\ transactions = prev

\* DELETE /transaction/{id} was asked for the id of another tenant's row
C7_Witness ==
    /\ resp.op = "http_delete"
    /\ \E tx \in prev \ Mine(prev) : tx.id = resp.request.transaction_id
    /\ ~resp.success

\* C8: an update with nothing to change answers success = false and sends no
\* statement: the handler when none of the four fields is given, the store
\* when no key of `updates` is one of the four.
C8_EmptyUpdateRejected ==
    /\ Called("update_transaction") /\ DOMAIN resp.call.params \cap MutableFields = {}
         => ~resp.call.result.success /\ resp.call.stmts = 0 /\ transactions = prev
    /\ resp.op = "store_update" /\ DOMAIN resp.request.updates \cap MutableFields = {}
         => ~resp.success /\ resp.stmts = 0 /\ transactions = prev

\* the store was handed only fields it does not update, for a row of the caller's
C8_Witness ==
    /\ resp.op = "store_update"
    /\ DOMAIN resp.request.updates # {}
    /\ DOMAIN resp.request.updates \cap MutableFields = {}
    /\ \E tx \in Mine(prev) : tx.id = resp.request.transaction_id

\* the last request was an update of row `id` with the fields d that succeeded
UpdatedBy(id, d) ==
    \/ /\ Called("update_transaction") /\ resp.call.result.success
       /\ resp.call.params.transaction_id = id
       /\ d = HandlerUpdates(resp.call.params)
    \/ /\ resp.op = "store_update" /\ resp.success
       /\ resp.request.transaction_id = id /\ d = resp.request.updates
    \/ /\ resp.op = "http_put" /\ resp.success
       /\ resp.request.transaction_id = id /\ d = [amount |-> resp.request.amount]

\* the row of a table with a given id
RowOf(table, id) == CHOOSE tx \in table : tx.id = id

\* the dicts an update can carry
UpdateDicts == StoreUpdates \cup UpdateFields \cup {[amount |-> a] : a \in Amounts}

\* C9: a successful update sets the supplied ones of amount, type, sub_type and
\* whom_to_paid on the caller's row of that id and changes nothing else: not that
\* row's other fields, whatever other keys were supplied, and no other row.
C9_UpdateFrame ==
    \A id \in Ids, d \in UpdateDicts :
        UpdatedBy(id, d) =>
            /\ \E tx \in Mine(prev) : tx.id = id
            /\ {tx.id : tx \in transactions} = {tx.id : tx \in prev}
            /\ Cardinality(transactions) = Cardinality(prev)
            /\ \A old \in prev :
                 IF old.id = id
                 THEN \A f \in DOMAIN old :
                        RowOf(transactions, id)[f] =
                            IF f \in DOMAIN d \cap MutableFields THEN d[f] ELSE old[f]
                 ELSE old \in transactions

\* the store updated a row from a dict that also named id and client_id, while
\* another row was stored
C9_Witness ==
    /\ resp.op = "store_update" /\ resp.success
    /\ "id" \in DOMAIN resp.request.updates
    /\ "client_id" \in DOMAIN resp.request.updates
    /\ Cardinality(prev) = 2

\* the date range of the last request, when its only filter is a date phrase
\* that resolves to one: a get handler call or GET /transactions_by_filter
DateOnly(range) ==
    \/ /\ Called("get_transaction")
       /\ DOMAIN resp.call.params = {"user_id", "client_id", "date_filter"}
       /\ range = parse_date_filters(resp.call.params.date_filter, Today(now))
    \/ /\ resp.op = "transactions_by_filter"
       /\ DOMAIN resp.request = {"filter"}
       /\ range = parse_date_filters(resp.request.filter, Today(now))

\* the ranges the date phrases of the model resolve to
Ranges ==
    {parse_date_filters(ph, Today(now)) :
        ph \in {P_today, P_Yesterday, P_this_month, P_this_month_spaced}} \ {EmptyDict}

\* the rows the last request's handler or endpoint gave back
Given_back == IF resp.op = "message" THEN Shown(resp.call) ELSE resp.returned

\* C10: a query with a date range gives back a row of the caller's if and only
\* if date_from <= created_at < date_to.
C10_HalfOpenRange ==
    \A range \in Ranges :
        DateOnly(range) =>
            Given_back = {tx.id : tx \in
                            {x \in Mine(prev) :
                               /\ Midnight(range.date_from) <= x.created_at
                               /\ x.created_at < Midnight(range.date_to)}}

\* the phrases of the model that hold none of the six keys, in any case
OutsidePhrases == {P_this_month_spaced, P_tomorrow, P_last_year, P_blank}

Resolved(date_text) ==
    resp.op = "parse_date_filters" /\ resp.request.date_text = date_text

\* the year and month of a date
MonthOfDate(d) == <<Ord2Ymd(d).year, Ord2Ymd(d).month>>

\* a date is a Monday: EpochOrdinal, 30 December 2024, is one
IsMonday(d) == (d - EpochOrdinal) % 7 = 0

\* C12: this_week and last_week resolve to 7 days from a Monday, this week's
\* holding today and last week's ending where this week's starts; this_month and
\* last_month resolve to the days from the 1st of the month (today's, or the one
\* before) to the 1st of the month after it.
C12_WeekAndMonthRanges ==
    LET today == Today(now)
        from == resp.result.date_from
        to == resp.result.date_to
    IN  /\ Resolved(P_this_week) =>
              /\ to = from + 7 /\ IsMonday(from)
              /\ from <= today /\ today < to
        /\ Resolved(P_last_week) =>
              /\ to = from + 7 /\ IsMonday(from)
              /\ to <= today /\ today < to + 7
        /\ Resolved(P_this_month) =>
              /\ Ord2Ymd(from).day = 1 /\ Ord2Ymd(to).day = 1
              /\ MonthOfDate(from) = MonthOfDate(today)
              /\ MonthOfDate(to - 1) = MonthOfDate(today)
        /\ Resolved(P_last_month) =>
              /\ Ord2Ymd(from).day = 1 /\ Ord2Ymd(to).day = 1
              /\ MonthOfDate(to) = MonthOfDate(today)
              /\ MonthOfDate(from) = MonthOfDate(to - 1)

\* last_month was resolved on a day of January
C12_Witness ==
    /\ Resolved(P_last_month)
    /\ Ord2Ymd(Today(now)).month = 1
    /\ Ord2Ymd(resp.result.date_from).month = 12

\* the sum of the amounts of a set of rows
RECURSIVE SumAmounts(_)
SumAmounts(S) ==
    IF S = {} THEN 0
    ELSE LET x == CHOOSE y \in S : TRUE IN x.amount + SumAmounts(S \ {x})

\* the rows a get handler call gave back
RowsGot == {resp.call.result.data.transactions[i] :
              i \in 1..Len(resp.call.result.data.transactions)}

\* C13: the total_amount of a get is the sum of the amounts of the returned
\* rows of type income minus the sum of the amounts of the returned rows of any
\* other type; a get filtered to type expense alone gives minus the sum of the
\* amounts of the caller's expense rows.
C13_SignedTotal ==
    Called("get_transaction") /\ resp.call.result.success
      /\ resp.call.result.data.count > 0 =>
        /\ resp.call.result.data.total_amount =
               SumAmounts({r \in RowsGot : r.type = "income"})
                 - SumAmounts({r \in RowsGot : r.type # "income"})
        /\ DOMAIN resp.call.params = {"user_id", "client_id", "type"}
             /\ resp.call.params.type = "expense" =>
               resp.call.result.data.total_amount =
                   0 - SumAmounts({tx \in Mine(prev) : tx.type = "expense"})

\* a get with no filter gave back an income and a row that is neither an income
\* nor an expense
C13_Witness ==
    /\ Called("get_transaction") /\ resp.call.result.success
    /\ resp.call.result.data.count = 2
    /\ \E a, b \in RowsGot : a.type = "income" /\ b.type = "savings"

\* C14: every row a get with an amount_min or an amount_max gives back has
\* amount >= amount_min and amount <= amount_max, also when the bound is 0.
C14_AmountBounds ==
    Called("get_transaction") /\ resp.call.result.success
      /\ resp.call.result.data.count > 0 =>
        \A r \in RowsGot :
            /\ "amount_min" \in DOMAIN resp.call.params =>
                   r.amount >= resp.call.params.amount_min
            /\ "amount_max" \in DOMAIN resp.call.params =>
                   r.amount <= resp.call.params.amount_max

\* the steps the router went through for the last message
Steps == {resp.call.steps[i] : i \in 1..Len(resp.call.steps)}

\* the classifier was invoked for the last message and its call failed, or
\* the call extracted from its reply carries an error
Unclassified ==
    /\ resp.op = "message"
    /\ resp.call.llm.invoked
    /\ (~resp.request.success \/ "error" \in DOMAIN resp.request.tool_call)

\* C15: when the classifier call fails, its reply cannot be decoded, or the
\* extracted call carries an error key, the router answers success = false
\* with tool_called = null, looks no name up in the registry, invokes no
\* handler and leaves the stored rows as they were.
C15_ClassifierFailure ==
    Unclassified =>
        /\ ~resp.result.success
        /\ resp.result.tool_called = None
        /\ "lookup" \notin Steps
        /\ ~resp.call.invoked
        /\ resp.call.stmts = 0
        /\ transactions = prev

\* an undecodable reply, and a reply that names a handler beside its error,
\* are refused while the caller has rows stored
C15_Witness ==
    /\ Unclassified
    /\ resp.request.success
    /\ resp.request.tool_call.error = "Invalid JSON response"
    /\ Mine(transactions) # {}

C15_WitnessNamed ==
    /\ Unclassified
    /\ resp.request = GeminiLLM_process_message(
            [kind |-> "json",
             parsed |-> [error |-> "Unable to understand the request",
                         name |-> "delete_transaction",
                         parameters |-> [transaction_id |-> 1]]])
    /\ \E tx \in Mine(transactions) : tx.id = 1

\* the four operations of the registry, as the claims name them
FourOperations ==
    {"add_transaction", "get_transaction", "update_transaction", "delete_transaction"}

\* the classifier answered the last message with a call whose name is none
\* of the four operations
UnknownName ==
    /\ resp.op = "message"
    /\ resp.call.llm.invoked
    /\ resp.request.success
    /\ "error" \notin DOMAIN resp.request.tool_call
    /\ resp.request.tool_call.name \notin FourOperations

\* the router refused the last message under the name the classifier gave
RefusedByName ==
    /\ ~resp.result.success
    /\ resp.result.tool_called = resp.request.tool_call.name
    /\ ~resp.call.invoked
    /\ resp.call.stmts = 0
    /\ transactions = prev

\* C16 as stated: every name that is not one of the four operations is
\* refused with tool_called equal to that name, no handler invoked and the
\* rows unchanged.
C16_AnyUnknownName == UnknownName => RefusedByName

\* C16 amended: a name that is a string and not one of the four operations
\* is refused with success = false and tool_called equal to that name, no
\* handler is invoked and the rows are unchanged; a name that cannot be
\* looked up (a JSON list) ends in the internal-error response with
\* tool_called = null, also with no handler invoked and the rows unchanged.
C16_UnknownStringName ==
    UnknownName =>
        IF resp.request.tool_call.name = ListName
        THEN /\ ~resp.result.success
             /\ resp.result.tool_called = None
             /\ resp.result.message.text = "Internal error"
             /\ ~resp.call.invoked
             /\ transactions = prev
        ELSE RefusedByName

\* "transfer_money" is refused while the caller has rows stored
C16_Witness ==
    /\ UnknownName
    /\ resp.request.tool_call.name = "transfer_money"
    /\ resp.result.tool_called = "transfer_money"
    /\ Mine(transactions) # {}

\* C17: when the router invokes a matched handler and the handler returns,
\* the response has the handler's success, message and data (null when the
\* handler gave none) and tool_called is the matched operation name, whether
\* the handler succeeded or failed.
C17_PassThrough ==
    resp.op = "message" /\ resp.call.invoked =>
        /\ resp.call.name \in FourOperations
        /\ resp.call.name = resp.request.tool_call.name
        /\ resp.result.tool_called = resp.call.name
        /\ resp.result.success = resp.call.result.success
        /\ resp.result.message = resp.call.result.message
        /\ resp.result.data = IF "data" \in DOMAIN resp.call.result
                              THEN resp.call.result.data ELSE None

\* a handler that succeeded with data, and one that failed, were passed through
C17_Witness ==
    /\ Called("get_transaction")
    /\ resp.call.result.success
    /\ resp.call.result.data.count > 0
    /\ resp.result.data = resp.call.result.data

C17_WitnessFailed ==
    /\ Called("delete_transaction")
    /\ ~resp.call.result.success
    /\ ~resp.result.success
    /\ resp.result.tool_called = "delete_transaction"

\* a fault was raised while the last message was served: a statement of the
\* store failed, or the router's except clause caught a fault of its own steps
FaultRaised ==
    /\ resp.op = "message"
    /\ (resp.call.fault # 0 \/ resp.call.raised # None)

\* the last message was answered by the router's except clause
InternalError ==
    /\ resp.call.raised # None
    /\ resp.result.message.text = "Internal error"

\* C18: for every fault raised in context fetch, classification, validation,
\* parameter injection or dispatch, the router returns success = false, an
\* internal-error message and tool_called = null.
C18_FaultsBecomeInternalError ==
    FaultRaised =>
        /\ ~resp.result.success
        /\ InternalError
        /\ resp.result.tool_called = None

\* the parameters p of a call to name fail the handler's validation: an
\* amount that is not positive, a transaction id that is missing or not
\* positive, or no field to update
Invalid(name, p) ==
    \/ /\ name \in {"add_transaction", "update_transaction"}
       /\ "amount" \in DOMAIN p
       /\ p.amount <= 0
    \/ /\ name \in {"update_transaction", "delete_transaction"}
       /\ ("transaction_id" \notin DOMAIN p \/ p.transaction_id <= 0)
    \/ /\ name = "update_transaction"
       /\ DOMAIN p \cap MutableFields = {}

\* the last message was classified as an add, update or delete whose
\* parameters, otherwise those of the handler, fail validation, and the store
\* served every statement
ValidationFailure ==
    /\ resp.op = "message"
    /\ resp.call.fault = 0
    /\ resp.request.success
    /\ "error" \notin DOMAIN resp.request.tool_call
    /\ resp.request.tool_call.name \in
           {"add_transaction", "update_transaction", "delete_transaction"}
    /\ DOMAIN resp.request.tool_call.parameters
           \subseteq Parameters(resp.request.tool_call.name)
    /\ Required(resp.request.tool_call.name) \ {"user_id", "client_id", "transaction_id"}
           \subseteq DOMAIN resp.request.tool_call.parameters
    /\ Invalid(resp.request.tool_call.name, resp.request.tool_call.parameters)

\* the handler refused the last message and the router passed that on
RefusedByHandler ==
    /\ resp.call.invoked
    /\ ~resp.call.result.success
    /\ ~resp.result.success
    /\ resp.result.message = resp.call.result.message
    /\ resp.result.tool_called = resp.request.tool_call.name
    /\ resp.call.stmts = 0
    /\ transactions = prev

\* C19: a validation failure (amount <= 0, a missing or non-positive
\* transaction id, an empty update set) in a classified add, update or delete
\* is returned by the handler as {success: false, message}, passed through by
\* the router with tool_called the operation name, and no row is changed.
C19_ValidationAtHandler == ValidationFailure => RefusedByHandler

\* the same for calls that carry a transaction id where one is required
C19_ValidationWithId ==
    /\ ValidationFailure
    /\ resp.request.tool_call.name # "add_transaction"
           => "transaction_id" \in DOMAIN resp.request.tool_call.parameters
    => RefusedByHandler

\* the SELECT of the recent transactions, the first statement of the last
\* message, failed
FetchFailed ==
    /\ resp.op = "message"
    /\ resp.call.fault = 1

\* C20: when fetching the recent transactions fails the router still invokes
\* the classifier, with an empty context, and goes on with the classified
\* call; the failed fetch produces no failure response.
C20_FetchFailureNonFatal ==
    FetchFailed =>
        /\ resp.call.llm.invoked
        /\ resp.call.llm.recent_transactions = <<>>
        /\ "classify" \in Steps
        /\ resp.call.raised # "fetch"

\* a statement the store ran for the handler of the last message failed
HandlerStoreFault ==
    /\ resp.op = "message"
    /\ resp.call.invoked
    /\ resp.call.fault >= 2

\* C21: when a store call made by a dispatched handler raises a storage
\* fault, the fault reaches the router's outer boundary and the router
\* returns the internal-error envelope (success = false, a message beginning
\* with "Internal error").
C21_StoreFaultReachesRouter ==
    HandlerStoreFault =>
        /\ ~resp.result.success
        /\ resp.call.raised = "call"
        /\ InternalError

\* the place of a router state in start, context-fetched, classified,
\* validated, dispatched, done
Rank(pc) ==
    CASE pc = "start" -> 1
      [] pc = "context-fetched" -> 2
      [] pc = "classified" -> 3
      [] pc = "validated" -> 4
      [] pc = "dispatched" -> 5
      [] pc = "done" -> 6

\* the states the run in flight went through
Visited == {resp.visited[i] : i \in 1..Len(resp.visited)}

\* a message is in flight: it went from start through the states in their
\* order and never back, fetched before it asked the classifier, asked the
\* classifier and called a handler at most once, called a handler only for a
\* name found in the registry, and returned one response exactly when done
RouterOrder ==
    resp.op = "routing" =>
        /\ resp.visited[1] = "start"
        /\ resp.visited[Len(resp.visited)] = resp.pc
        /\ \A i \in 1..(Len(resp.visited) - 1) :
               Rank(resp.visited[i]) < Rank(resp.visited[i + 1])
        /\ resp.llm_calls <= 1
        /\ resp.handler_calls <= 1
        /\ resp.llm_calls = 1 => "context-fetched" \in Visited /\ resp.stmts >= 1
        /\ resp.handler_calls = (IF "dispatched" \in Visited THEN 1 ELSE 0)
        /\ resp.handler_calls = 1 =>
               /\ "validated" \in Visited
               /\ resp.llm_calls = 1
               /\ resp.call.name \in FourOperations
        /\ Len(resp.responses) = (IF resp.pc = "done" THEN 1 ELSE 0)

\* C22: for every message the router moves through start, context-fetched,
\* classified, validated, dispatched, done in that order and never back; the
\* fetch comes before the classifier, a handler is invoked only after its name
\* was found in the registry, classifier and handler are invoked at most
\* once, and every run ends by returning exactly one response.
C22_RouterStateOrder ==
    /\ []RouterOrder
    /\ (resp.op = "routing") ~> (resp.op = "routing" /\ resp.pc = "done")

\* a run went through all six states and returned its one response
C22_Witness ==
    /\ resp.op = "routing"
    /\ resp.visited = <<"start", "context-fetched", "classified", "validated",
                        "dispatched", "done">>
    /\ Len(resp.responses) = 1
    /\ transactions # prev

\* the run that is done returned what process_message, taken as one step,
\* returns for the same message, and left the same rows
C22_AgreesWithProcessMessage ==
    resp.op = "routing" /\ resp.pc = "done" =>
        LET Same(r) ==
                /\ r.response = resp.responses[1]
                /\ r.db.transactions = transactions
                /\ r.db.auto_increment = auto_increment
                /\ r.raised = resp.raised
                /\ r.llm.invoked = (resp.llm_calls = 1)
                /\ r.call.invoked = (resp.handler_calls = 1)
        IN  Same(process_message([transactions |-> prev, auto_increment |-> resp.before,
                                  stmts |-> 0, fault |-> resp.fault],
                                 now, resp.user_id, resp.client_id, resp.gemini_result))

\* the parser was applied to a reply and gave a mapping
Parsed == resp.op = "parse_response" /\ "returned" \in DOMAIN resp.result

\* the text has a "{" and, after it, a "}"
HasBraces(text) ==
    \E i \in 1..Len(text), j \in 1..Len(text) : i < j /\ text[i] = "{" /\ text[j] = "}"

\* the text from the first "{" to the last "}" of a text that has them
Braced(text) ==
    LET first == CHOOSE i \in 1..Len(text) :
                    text[i] = "{" /\ \A k \in 1..(i - 1) : text[k] # "{"
        last == CHOOSE j \in 1..Len(text) :
                    text[j] = "}" /\ \A k \in (j + 1)..Len(text) : text[k] # "}"
    IN  SubSeq(text, first, last)

\* the parser answered {error: reason} and nothing else
OnlyError == DOMAIN resp.result.returned = {"error"}

\* C23: the reply parser never raises: for every reply text it returns a
\* mapping with a name key or a mapping {error: reason}; it returns {error}
\* when the text has no "{" before a later "}", when the text from the first
\* "{" to the last "}" does not decode, when the decoded mapping has an error
\* key (also beside a name key), and when it has no name key.
C23_ParserNeverRaises ==
    resp.op = "parse_response" =>
        /\ Parsed
        /\ OnlyError \/ "name" \in DOMAIN resp.result.returned
        /\ resp.text # NoText /\ ~HasBraces(resp.text) => OnlyError
        /\ resp.text # NoText /\ HasBraces(resp.text) =>
               \A decoded \in {JsonLoads(Braced(resp.text))} :
                   /\ "raised" \in DOMAIN decoded => OnlyError
                   /\ "returned" \in DOMAIN decoded =>
                         /\ "error" \in DOMAIN decoded.returned => OnlyError
                         /\ "name" \notin DOMAIN decoded.returned => OnlyError
                         /\ DOMAIN decoded.returned \cap {"error", "name"} = {"name"}
                                => resp.result.returned = decoded.returned

\* a reply with prose around an object that has an error beside its name
C23_Witness ==
    /\ Parsed
    /\ resp.text = <<"x", "{", "n", ",", "e", "}">>
    /\ resp.result.returned = [error |-> "reason"]

\* what a text is to the classifier: prose, an object that does not decode,
\* or a decoded object
ReplyOf(text) ==
    IF ~HasBraces(text) THEN [kind |-> "prose"]
    ELSE IF "raised" \in DOMAIN JsonLoads(Braced(text)) THEN [kind |-> "undecodable"]
    ELSE [kind |-> "json", parsed |-> JsonLoads(Braced(text)).returned]

\* the parser gives for a text what it gives for the reply the text is
C23_AgreesWithReplies ==
    resp.op = "parse_response" /\ resp.text # NoText =>
        /\ Parsed
        /\ resp.result.returned = GeminiLLM_parse_response(ReplyOf(resp.text))

\* the last message was dispatched to the update handler with a positive id
\* of a row in the caller's scope and a non-empty set of valid fields, and the
\* store served every statement
UpdateOfExistingRow ==
    /\ Called("update_transaction")
    /\ resp.call.fault = 0
    /\ resp.call.params.transaction_id > 0
    /\ \E tx \in prev : WhereId(tx, resp.call.params.transaction_id,
                                resp.call.params.user_id, resp.call.params.client_id)
    /\ DOMAIN resp.call.params \cap MutableFields # {}
    /\ "amount" \in DOMAIN resp.call.params => resp.call.params.amount > 0

\* every value the update supplies is the value the row already holds
NothingToChange ==
    \A tx \in prev :
        WhereId(tx, resp.call.params.transaction_id,
                resp.call.params.user_id, resp.call.params.client_id)
            => \A f \in DOMAIN resp.call.params \cap MutableFields :
                   tx[f] = resp.call.params[f]

\* C24: the update handler, given a positive id of a row in the caller's scope
\* and a non-empty set of valid fields (amount > 0 if supplied), returns
\* success = true, also when every supplied value equals the stored one.
C24_UpdateOfExistingRowSucceeds ==
    UpdateOfExistingRow => resp.call.result.success /\ resp.result.success

\* the update is refused exactly when it changes nothing, with the store's
\* message, and the row is left as it was
C24_RefusedWhenNothingToChange ==
    UpdateOfExistingRow =>
        /\ resp.call.result.success <=> ~NothingToChange
        /\ ~resp.call.result.success =>
               /\ resp.result.message = "Transaction not found or no changes made"
               /\ resp.result.tool_called = "update_transaction"
               /\ transactions = prev

\* call i of the two in flight has returned and the store served its statements
Served(i) ==
    /\ resp.op = "handlers"
    /\ resp.runs[i].pc = "returned"
    /\ ~resp.runs[i].faulted

\* a call whose statements no other call's write came between returns what the
\* handler returns when it runs alone on the table its lookup found
Handlers_AgreeWhenAlone ==
    \A i \in 1..2 :
        /\ resp.op = "handlers"
        /\ resp.runs[i].pc = "returned"
        /\ resp.runs[i].statements = 2 => resp.runs[i].before = resp.runs[i].looked
        => resp.runs[i].result =
               CallTool(resp.runs[i].name,
                        [transactions |-> resp.runs[i].looked,
                         auto_increment |-> auto_increment, stmts |-> 0,
                         fault |-> IF resp.runs[i].faulted
                                   THEN resp.runs[i].statements ELSE 0],
                        now, resp.runs[i].p).result

\* the two calls were deletes of one id in one scope where prev held its row,
\* both have returned and the store served every statement
TwoDeletes ==
    /\ Served(1)
    /\ Served(2)
    /\ resp.runs[1].name = "delete_transaction"
    /\ resp.runs[2].name = "delete_transaction"
    /\ resp.runs[1].p = resp.runs[2].p
    /\ \E tx \in prev : WhereId(tx, resp.runs[1].p.transaction_id,
                                resp.runs[1].p.user_id, resp.runs[1].p.client_id)

\* C25: of two delete handler calls for one existing id in one scope, their
\* lookups and DELETE statements coming in any order, exactly one returns
\* success = true, the other success = false, and one row less is stored.
C25_OneDeleteWins ==
    TwoDeletes =>
        /\ Cardinality({i \in 1..2 : resp.runs[i].result.success}) = 1
        /\ Cardinality({i \in 1..2 : ~resp.runs[i].result.success}) = 1
        /\ Cardinality(transactions) = Cardinality(prev) - 1
        /\ transactions \subseteq prev

\* both lookups found the row before either DELETE was sent
C25_Witness ==
    /\ TwoDeletes
    /\ \A i \in 1..2 : resp.runs[i].statements = 2 /\ resp.runs[i].looked = prev
    /\ resp.runs[2].result.success
    /\ resp.runs[1].result.message = "Transaction not found"

\* the second call looked the row up after the first had deleted it
C25_WitnessInTurn ==
    /\ TwoDeletes
    /\ resp.runs[1].statements = 2
    /\ resp.runs[2].statements = 1
    /\ resp.runs[1].result.success

\* call i was an update that returned success = true
UpdateSucceeded(i) ==
    /\ Served(i)
    /\ resp.runs[i].name = "update_transaction"
    /\ resp.runs[i].result.success

\* every old value call i reports is the value the row has in the table rows
OldValuesOf(i, rows) ==
    \A tx \in rows :
        WhereId(tx, resp.runs[i].p.transaction_id, resp.runs[i].p.user_id,
                resp.runs[i].p.client_id)
            => \A f \in DOMAIN resp.runs[i].result.message.changes :
                   resp.runs[i].result.message.changes[f].old = tx[f]

\* C26: whenever the update handler returns success = true, the old value it
\* reports for each changed field is the value the row held immediately before
\* this update's write was applied, also when another update of the row ran
\* between the handler's pre-image lookup and its write.
C26_OldValueBeforeWrite ==
    \A i \in 1..2 : UpdateSucceeded(i) => OldValuesOf(i, resp.runs[i].before)

\* the old values are those of the row the lookup found, and those of the row
\* before the write when no write came between the two statements
C26_OldValueAtLookup ==
    \A i \in 1..2 :
        UpdateSucceeded(i) =>
            /\ OldValuesOf(i, resp.runs[i].looked)
            /\ resp.runs[i].before = resp.runs[i].looked
                   => OldValuesOf(i, resp.runs[i].before)

\* the names the handler is called with: those the classifier extracted and
\* the two the router injects
CalledWith(tool_call) ==
    DOMAIN Get(tool_call, "parameters", EmptyDict) \cup {"user_id", "client_id"}

\* the last message was classified as a call of a registered handler whose
\* parameters do not fit its signature: a name the signature does not have, or
\* a required one missing
MisfitCall ==
    /\ resp.op = "message"
    /\ "success" \in DOMAIN resp.request
    /\ resp.request.success
    /\ "error" \notin DOMAIN resp.request.tool_call
    /\ "name" \in DOMAIN resp.request.tool_call
    /\ resp.request.tool_call.name \in tools
    /\ IsDict(Get(resp.request.tool_call, "parameters", EmptyDict))
    /\ \/ ~(CalledWith(resp.request.tool_call)
               \subseteq Parameters(resp.request.tool_call.name))
       \/ ~(Required(resp.request.tool_call.name)
               \subseteq CalledWith(resp.request.tool_call))

\* no handler body ran for the last message and it changed no stored row
NoHandlerRan ==
    /\ ~resp.call.invoked
    /\ resp.stmts <= 1
    /\ transactions = prev

\* C27: whenever the router's response has tool_called = null, no handler body
\* ran and the stored rows are unchanged by the message; a classified call
\* whose parameters do not fit the handler's signature (an unexpected name or
\* a missing required one) ends in the internal-error response, so it is one.
C27_NoToolNoEffect ==
    /\ resp.op = "message" /\ resp.result.tool_called = None => NoHandlerRan
    /\ MisfitCall =>
           /\ ~resp.result.success
           /\ InternalError
           /\ resp.result.tool_called = None
           /\ NoHandlerRan

\* an add with a parameter the handler does not have, while rows are stored
C27_Witness ==
    /\ MisfitCall
    /\ resp.call.raised = "call"
    /\ resp.request.tool_call.name = "add_transaction"
    /\ "note" \in DOMAIN resp.request.tool_call.parameters
    /\ resp.result.tool_called = None
    /\ transactions # {}

\* an add without its required type
C27_WitnessMissing ==
    /\ MisfitCall
    /\ resp.call.raised = "call"
    /\ resp.request.tool_call.name = "add_transaction"
    /\ "type" \notin DOMAIN resp.request.tool_call.parameters
    /\ resp.result.tool_called = None

====
